---- MODULE Spec2Model ----
(***************************************************************************)
(* Model of the enterprise rules engine: the condition grammar             *)
(* (backend/rule_parser.py), the rule evaluator, the hit-policy resolver    *)
(* (backend/engine.py) and the persisted rule store (backend/crud.py,      *)
(* backend/main.py).                                                       *)
(*                                                                         *)
(* Text is a sequence of one-character strings.  A number is a pair        *)
(* [n, d] standing for the decimal n/d, d a power of ten.                  *)
(***************************************************************************)
EXTENDS Integers, Sequences, FiniteSets, TLC

(***************************************************************************)
(* Bounds of the model.                                                    *)
(***************************************************************************)
MaxValue == 3
MaxRules == 3
MaxStored == 2
MaxPriority == 2

(***************************************************************************)
(* Text helpers (Python str methods used by the parser).                   *)
(***************************************************************************)
Digits == {"0", "1", "2", "3", "4", "5", "6", "7", "8", "9"}

DigitVal(c) ==
    CASE c = "0" -> 0 [] c = "1" -> 1 [] c = "2" -> 2 [] c = "3" -> 3
      [] c = "4" -> 4 [] c = "5" -> 5 [] c = "6" -> 6 [] c = "7" -> 7
      [] c = "8" -> 8 [] c = "9" -> 9

DigitChar(k) ==
    CASE k = 0 -> "0" [] k = 1 -> "1" [] k = 2 -> "2" [] k = 3 -> "3"
      [] k = 4 -> "4" [] k = 5 -> "5" [] k = 6 -> "6" [] k = 7 -> "7"
      [] k = 8 -> "8" [] k = 9 -> "9"

Whitespace == {" "}

Lower == <<"a", "b", "c", "d", "e", "f", "g", "h", "i", "j", "k", "l", "m",
           "n", "o", "p", "q", "r", "s", "t", "u", "v", "w", "x", "y", "z">>
Upper == <<"A", "B", "C", "D", "E", "F", "G", "H", "I", "J", "K", "L", "M",
           "N", "O", "P", "Q", "R", "S", "T", "U", "V", "W", "X", "Y", "Z">>

UpperChar(c) ==
    IF \E i \in 1..26 : Lower[i] = c
    THEN Upper[CHOOSE i \in 1..26 : Lower[i] = c]
    ELSE c

\* str.upper()
StrUpper(s) == [i \in 1..Len(s) |-> UpperChar(s[i])]

\* slice s[i:] with a 1-based first index
Drop(s, i) == SubSeq(s, i, Len(s))

RECURSIVE LStrip(_)
LStrip(s) == IF s # <<>> /\ s[1] \in Whitespace THEN LStrip(Tail(s)) ELSE s

RECURSIVE RStrip(_)
RStrip(s) ==
    IF s # <<>> /\ s[Len(s)] \in Whitespace
    THEN RStrip(SubSeq(s, 1, Len(s) - 1))
    ELSE s

\* str.strip()
Strip(s) == RStrip(LStrip(s))

\* str.startswith(p)
StartsWith(s, p) == Len(s) >= Len(p) /\ SubSeq(s, 1, Len(p)) = p

\* sub in s
Contains(s, sub) ==
    \E i \in 1..(Len(s) - Len(sub) + 1) : SubSeq(s, i, i + Len(sub) - 1) = sub

(***************************************************************************)
(* Numbers: _SIGNED_NUMBER and float().                                    *)
(***************************************************************************)
AllDigits(s) == Len(s) >= 1 /\ \A i \in 1..Len(s) : s[i] \in Digits

RECURSIVE DigitsVal(_)
DigitsVal(s) ==
    IF s = <<>> THEN 0
    ELSE DigitsVal(SubSeq(s, 1, Len(s) - 1)) * 10 + DigitVal(s[Len(s)])

RECURSIVE Pow10(_)
Pow10(k) == IF k = 0 THEN 1 ELSE 10 * Pow10(k - 1)

HasSign(s) == s # <<>> /\ s[1] \in {"-", "+"}
Unsigned(s) == IF HasSign(s) THEN Tail(s) ELSE s

\* position of the decimal point of an unsigned numeral, 0 when it has none
DotPos(b) ==
    IF \E i \in 1..Len(b) : b[i] = "."
    THEN CHOOSE i \in 1..Len(b) : b[i] = "." /\ \A j \in 1..(i - 1) : b[j] # "."
    ELSE 0

\* \d+(?:\.\d+)?|\.\d+
UnsignedNumber(b) ==
    \/ AllDigits(b)
    \/ /\ DotPos(b) > 0
       /\ AllDigits(Drop(b, DotPos(b) + 1))
       /\ (DotPos(b) = 1 \/ AllDigits(SubSeq(b, 1, DotPos(b) - 1)))

\* the text matches _SIGNED_NUMBER as a whole
SIGNED_NUMBER(s) == UnsignedNumber(Unsigned(s))

\* the decimal an unsigned numeral denotes: digits, optional point, digits
UnsignedVal(b) ==
    IF DotPos(b) = 0 THEN [n |-> DigitsVal(b), d |-> 1]
    ELSE LET ip == SubSeq(b, 1, DotPos(b) - 1)
             fp == Drop(b, DotPos(b) + 1)
         IN  [n |-> DigitsVal(ip) * Pow10(Len(fp)) + DigitsVal(fp),
              d |-> Pow10(Len(fp))]

\* float(text) for a text float() accepts
NumeralVal(s) ==
    LET u == UnsignedVal(Unsigned(s))
    IN  IF HasSign(s) /\ s[1] = "-" THEN [n |-> 0 - u.n, d |-> u.d] ELSE u

\* texts float() accepts: surrounding blanks, a sign, then digits with an
\* optional point on either side ("5", "5.", ".5", "5.5")
FloatText(s) ==
    LET b == Unsigned(Strip(s))
    IN  \/ AllDigits(b)
        \/ /\ DotPos(b) > 0
           /\ Len(b) >= 2
           /\ \A i \in 1..Len(b) : i # DotPos(b) => b[i] \in Digits

NumLeq(a, b) == a.n * b.d <= b.n * a.d
NumLt(a, b) == a.n * b.d < b.n * a.d
NumEq(a, b) == a.n * b.d = b.n * a.d

(***************************************************************************)
(* Context values.  t is the Python type of the value.                     *)
(***************************************************************************)
IntV(k) == [t |-> "int", n |-> k, d |-> 1, s |-> <<>>]
FloatV(k, den) == [t |-> "float", n |-> k, d |-> den, s |-> <<>>]
BoolV(b) == [t |-> "bool", n |-> IF b THEN 1 ELSE 0, d |-> 1, s |-> <<>>]
StrV(txt) == [t |-> "str", n |-> 0, d |-> 1, s |-> txt]
NoneV == [t |-> "none", n |-> 0, d |-> 1, s |-> <<>>]
ListV == [t |-> "list", n |-> 0, d |-> 1, s |-> <<>>]
DictV == [t |-> "dict", n |-> 0, d |-> 1, s |-> <<>>]
\* an int of magnitude beyond the largest float, such as 10 ** 400
HugeIntV == [t |-> "hugeint", n |-> 0, d |-> 1, s |-> <<>>]

\* isinstance(v, (int, float)); bool is a subclass of int
IsNumeric(v) == v.t \in {"int", "float", "bool", "hugeint"}

\* float(v) raises OverflowError, which no except clause of the module
\* names
FloatRaises(v) == v.t = "hugeint"

OverflowError == [raised |-> "OverflowError"]

Raised(r) == "raised" \in DOMAIN r

\* float(v) succeeds
FloatOk(v) == IsNumeric(v) \/ (v.t = "str" /\ FloatText(v.s))

\* float(v)
FloatOf(v) ==
    IF IsNumeric(v) THEN [n |-> v.n, d |-> v.d] ELSE NumeralVal(Strip(v.s))

RECURSIVE NatText(_)
NatText(k) ==
    IF k < 10 THEN <<DigitChar(k)>>
    ELSE NatText(k \div 10) \o <<DigitChar(k % 10)>>

\* k written with exactly w digits
RECURSIVE PadText(_, _)
PadText(k, w) ==
    IF w = 0 THEN <<>> ELSE PadText(k \div 10, w - 1) \o <<DigitChar(k % 10)>>

RECURSIVE Log10(_)
Log10(den) == IF den <= 1 THEN 0 ELSE 1 + Log10(den \div 10)

Abs(k) == IF k < 0 THEN 0 - k ELSE k

\* str(v); a float prints its integer part, a point and its decimals
\* (values of the model carry at most one decimal digit)
PyStr(v) ==
    CASE v.t = "str" -> v.s
      [] v.t = "int" ->
            (IF v.n < 0 THEN <<"-">> ELSE <<>>) \o NatText(Abs(v.n))
      [] v.t = "float" ->
            (IF v.n < 0 THEN <<"-">> ELSE <<>>)
                \o NatText(Abs(v.n) \div v.d) \o <<".">>
                \o (IF v.d = 1 THEN <<"0">>
                    ELSE PadText(Abs(v.n) % v.d, Log10(v.d)))
      [] v.t = "bool" ->
            IF v.n = 1 THEN <<"T", "r", "u", "e">>
            ELSE <<"F", "a", "l", "s", "e">>
      [] v.t = "none" -> <<"N", "o", "n", "e">>
      [] v.t = "list" -> <<"[", "]">>
      [] v.t = "dict" -> <<"{", "}">>
      [] v.t = "hugeint" -> <<"1", "0{400}">>

(***************************************************************************)
(* Range: min..max                                                         *)
(***************************************************************************)
\* positions i where the text reads <number> ".." <number>, the two points
\* at i and i+1
RangeSplits(s) ==
    {i \in 2..(Len(s) - 2) :
        /\ s[i] = "." /\ s[i + 1] = "."
        /\ SIGNED_NUMBER(SubSeq(s, 1, i - 1))
        /\ SIGNED_NUMBER(Drop(s, i + 2))}

\* re.match(rf'^({_SIGNED_NUMBER})\.\.({_SIGNED_NUMBER})$', s)
RangeMatch(s) == RangeSplits(s) # {}

RangeMin(s) ==
    LET i == CHOOSE k \in RangeSplits(s) : TRUE
    IN  NumeralVal(SubSeq(s, 1, i - 1))

RangeMax(s) ==
    LET i == CHOOSE k \in RangeSplits(s) : TRUE
    IN  NumeralVal(Drop(s, i + 2))

\* parse_range with the upper bound excluded
parse_range_exclusive(s, input_value) ==
    IF RangeMatch(s)
    THEN IF FloatOk(input_value)
         THEN /\ NumLeq(RangeMin(s), FloatOf(input_value))
              /\ NumLt(FloatOf(input_value), RangeMax(s))
         ELSE FALSE
    ELSE FALSE

parse_range(s, input_value) ==
    IF RangeMatch(s)
    THEN IF FloatOk(input_value)
         THEN /\ NumLeq(RangeMin(s), FloatOf(input_value))
              /\ NumLeq(FloatOf(input_value), RangeMax(s))
         ELSE FALSE
    ELSE FALSE

(***************************************************************************)
(* Comparison: > >= < <=                                                   *)
(***************************************************************************)
\* re.match(r'^(>=|<=|>|<)', s)
ComparisonPrefix(s) == s # <<>> /\ s[1] \in {">", "<"}

ComparisonOp(s) ==
    IF Len(s) >= 2 /\ s[2] = "=" THEN SubSeq(s, 1, 2) ELSE SubSeq(s, 1, 1)

ComparisonLimitText(s) == LStrip(Drop(s, Len(ComparisonOp(s)) + 1))

\* re.match(rf'^(>|>=|<|<=)\s*({_SIGNED_NUMBER})$', s)
ComparisonMatch(s) ==
    ComparisonPrefix(s) /\ SIGNED_NUMBER(ComparisonLimitText(s))

parse_comparison(s, input_value) ==
    IF ComparisonMatch(s)
    THEN IF FloatOk(input_value)
         THEN LET val == FloatOf(input_value)
                  op == ComparisonOp(s)
                  limit == NumeralVal(ComparisonLimitText(s))
              IN  CASE op = <<">">> -> NumLt(limit, val)
                    [] op = <<">", "=">> -> NumLeq(limit, val)
                    [] op = <<"<">> -> NumLt(val, limit)
                    [] op = <<"<", "=">> -> NumLeq(val, limit)
         ELSE FALSE
    ELSE FALSE

(***************************************************************************)
(* Set membership: IN (item, item, ...)                                    *)
(***************************************************************************)
\* the text after the leading "IN" and any blanks
InRest(s) == LStrip(Drop(s, 3))

\* re.match(r'(?i)^IN\s*\((.*)\)$', s)
InMatch(s) ==
    /\ StartsWith(StrUpper(s), <<"I", "N">>)
    /\ Len(InRest(s)) >= 2
    /\ InRest(s)[1] = "("
    /\ InRest(s)[Len(InRest(s))] = ")"

\* match.group(1): the text between the first "(" and the final ")"
InInner(s) == SubSeq(InRest(s), 2, Len(InRest(s)) - 1)

\* length of the run of digits of s that starts at position p
RECURSIVE DigitRun(_, _)
DigitRun(s, p) ==
    IF p <= Len(s) /\ s[p] \in Digits THEN 1 + DigitRun(s, p + 1) ELSE 0

\* end position of the match of ([-+]?\d*\.\d+|[-+]?\d+) that starts at p,
\* 0 when the pattern does not match there
NumberTokenEnd(s, p) ==
    LET q == IF p <= Len(s) /\ s[p] \in {"-", "+"} THEN p + 1 ELSE p
        r == q + DigitRun(s, q)
    IN  IF r <= Len(s) /\ s[r] = "." /\ DigitRun(s, r + 1) >= 1
        THEN r + DigitRun(s, r + 1)
        ELSE IF r > q THEN r - 1 ELSE 0

\* re.findall(r"([-+]?\d*\.\d+|[-+]?\d+)", inner), scanning from position p
RECURSIVE FindNumbers(_, _)
FindNumbers(s, p) ==
    IF p > Len(s) THEN <<>>
    ELSE IF NumberTokenEnd(s, p) = 0 THEN FindNumbers(s, p + 1)
    ELSE <<SubSeq(s, p, NumberTokenEnd(s, p))>>
             \o FindNumbers(s, NumberTokenEnd(s, p) + 1)

\* position of the quote closing a literal opened with quote character q,
\* scanning (?:[^q\\]|\\.)* from position p; 0 when the literal never closes
RECURSIVE QuoteEnd(_, _, _)
QuoteEnd(s, p, q) ==
    IF p > Len(s) THEN 0
    ELSE IF s[p] = q THEN p
    ELSE IF s[p] = "\\"
         THEN IF p + 1 <= Len(s) THEN QuoteEnd(s, p + 2, q) ELSE 0
    ELSE QuoteEnd(s, p + 1, q)

\* content.replace("\\'", "'").replace('\\"', '"')
RECURSIVE Unescape(_)
Unescape(c) ==
    IF c = <<>> THEN <<>>
    ELSE IF Len(c) >= 2 /\ c[1] = "\\" /\ c[2] \in {"'", "\""}
         THEN <<c[2]>> \o Unescape(Drop(c, 3))
    ELSE <<c[1]>> \o Unescape(Tail(c))

\* the unescaped quoted literals re.finditer finds in inner, from position p
RECURSIVE FindQuoted(_, _)
FindQuoted(s, p) ==
    IF p > Len(s) THEN <<>>
    ELSE IF s[p] \in {"'", "\""} /\ QuoteEnd(s, p + 1, s[p]) > 0
         THEN <<Unescape(SubSeq(s, p + 1, QuoteEnd(s, p + 1, s[p]) - 1))>>
                  \o FindQuoted(s, QuoteEnd(s, p + 1, s[p]) + 1)
    ELSE FindQuoted(s, p + 1)

parse_in_operator(s, input_value) ==
    IF ~InMatch(s) THEN FALSE
    ELSE IF IsNumeric(input_value)
         THEN LET items == FindNumbers(InInner(s), 1)
              IN  \E k \in 1..Len(items) :
                      NumEq(NumeralVal(items[k]), FloatOf(input_value))
         ELSE LET items == FindQuoted(InInner(s), 1)
              IN  \E k \in 1..Len(items) : items[k] = PyStr(input_value)

(***************************************************************************)
(* Pattern: CP <pattern>                                                   *)
(***************************************************************************)
\* re.match(r'(?i)^CP\s+(.+)$', s) on a text without trailing blanks
CpMatch(s) ==
    /\ StartsWith(StrUpper(s), <<"C", "P">>)
    /\ Len(s) >= 4
    /\ s[3] \in Whitespace
    /\ LStrip(Drop(s, 3)) # <<>>

\* match.group(1).strip() with a pair of surrounding quotes removed
CpPattern(s) ==
    LET raw == Strip(LStrip(Drop(s, 3)))
    IN  IF /\ Len(raw) >= 2
           /\ raw[1] = raw[Len(raw)]
           /\ raw[1] \in {"'", "\""}
        THEN SubSeq(raw, 2, Len(raw) - 1)
        ELSE raw

\* fnmatch.fnmatchcase(name, pat) for patterns of literals, "*" and "?"
RECURSIVE fnmatchcase(_, _)
fnmatchcase(name, pat) ==
    IF pat = <<>> THEN name = <<>>
    ELSE IF pat[1] = "*"
         THEN \/ fnmatchcase(name, Tail(pat))
              \/ (name # <<>> /\ fnmatchcase(Tail(name), pat))
    ELSE /\ name # <<>>
         /\ (pat[1] = "?" \/ pat[1] = name[1])
         /\ fnmatchcase(Tail(name), Tail(pat))

\* raw_pattern.replace("+", "?")
PlusToQuestion(p) == [i \in 1..Len(p) |-> IF p[i] = "+" THEN "?" ELSE p[i]]

parse_cp_operator(s, input_value) ==
    LET t == Strip(s)
    IN  IF ~CpMatch(t) THEN FALSE
        ELSE IF CpPattern(t) = <<>> THEN FALSE
        ELSE fnmatchcase(PyStr(input_value), PlusToQuestion(CpPattern(t)))

(***************************************************************************)
(* evaluate_condition_with_reason / evaluate_condition / validate_syntax   *)
(***************************************************************************)
Outcome(ok, yes, no) == [matched |-> ok, reason |-> IF ok THEN yes ELSE no]

evaluate_condition_with_reason(condition_str, input_value) ==
    LET s == Strip(condition_str)
    IN  IF s = <<>> THEN [matched |-> TRUE, reason |-> "blank condition (wildcard)"]
        ELSE IF input_value.t = "none"
             THEN [matched |-> FALSE, reason |-> "input value is missing"]
        ELSE IF StartsWith(StrUpper(s), <<"C", "P">>)
             THEN Outcome(parse_cp_operator(s, input_value),
                          "pattern matched", "pattern mismatch")
        ELSE IF Contains(s, <<".", ".">>)
             THEN IF ~RangeMatch(s)
                  THEN [matched |-> FALSE, reason |-> "invalid range syntax"]
                  ELSE IF FloatRaises(input_value) THEN OverflowError
                  ELSE Outcome(parse_range(s, input_value),
                               "value in range", "value outside range")
        ELSE IF ComparisonPrefix(s)
             THEN IF ~ComparisonMatch(s)
                  THEN [matched |-> FALSE, reason |-> "invalid comparison syntax"]
                  ELSE IF FloatRaises(input_value) THEN OverflowError
                  ELSE Outcome(parse_comparison(s, input_value),
                               "comparison matched", "comparison failed")
        ELSE IF StartsWith(StrUpper(s), <<"I", "N">>)
             THEN IF ~InMatch(s)
                  THEN [matched |-> FALSE, reason |-> "invalid IN syntax"]
                  ELSE IF FloatRaises(input_value) THEN OverflowError
                  ELSE Outcome(parse_in_operator(s, input_value),
                               "value in set", "value not in set")
        ELSE IF IsNumeric(input_value) /\ FloatText(s)
             THEN IF FloatRaises(input_value) THEN OverflowError
                  ELSE Outcome(NumEq(NumeralVal(s), FloatOf(input_value)),
                          "numeric equality matched", "numeric equality failed")
        ELSE Outcome(s = PyStr(input_value), "exact match", "exact mismatch")

\* matched, _ = r: an exception raised below passes through
MatchedOf(r) == IF Raised(r) THEN r ELSE r.matched

evaluate_condition(condition_str, input_value) ==
    MatchedOf(evaluate_condition_with_reason(condition_str, input_value))

validate_syntax(condition_str) ==
    LET s == Strip(condition_str)
    IN  IF RangeMatch(s) THEN ~NumLt(RangeMax(s), RangeMin(s))
        ELSE IF (Contains(s, <<">">>) \/ Contains(s, <<"<">>)) /\ ComparisonMatch(s)
             THEN TRUE
        ELSE IF ComparisonPrefix(s) THEN FALSE
        ELSE IF StartsWith(StrUpper(s), <<"I", "N">>) THEN InMatch(s)
        ELSE IF StartsWith(StrUpper(s), <<"C", "P">>)
             THEN CpMatch(s) /\ CpPattern(s) # <<>>
        ELSE TRUE

(***************************************************************************)
(* Rule evaluator.  A rule's inputs map is a sequence of                   *)
(* [field, condition] pairs in declaration order; a context is a function  *)
(* from the field names it holds to their values.                          *)
(***************************************************************************)
\* context.get(key)
CtxGet(context, key) == IF key \in DOMAIN context THEN context[key] ELSE NoneV

\* "" if condition is None else str(condition)
ConditionText(condition) == IF condition.t = "none" THEN <<>> ELSE PyStr(condition)

\* logic.get("inputs", {}) or {}
LogicInputs(logic) == IF logic.has_inputs THEN logic.inputs ELSE <<>>

\* the trace entry of a field whose condition was evaluated to r
FieldEntry(key, condition_text, actual, r) ==
    [field |-> key, condition |-> condition_text, actual |-> actual,
     matched |-> r.matched, reason |-> r.reason]

\* FieldResult without the test "key not in context"
FieldResult_NoMissingCheck(key, condition, context) ==
    IF Strip(ConditionText(condition)) = <<>>
    THEN [field |-> key, condition |-> <<>>, actual |-> CtxGet(context, key),
          matched |-> TRUE, reason |-> "blank condition (wildcard)"]
    ELSE FieldEntry(key, ConditionText(condition), CtxGet(context, key),
                    evaluate_condition_with_reason(ConditionText(condition),
                                                   CtxGet(context, key)))

\* one iteration of the loop over inputs.items(): the trace entry of a field
FieldResult(key, condition, context) ==
    IF Strip(ConditionText(condition)) = <<>>
    THEN [field |-> key, condition |-> <<>>, actual |-> CtxGet(context, key),
          matched |-> TRUE, reason |-> "blank condition (wildcard)"]
    ELSE IF key \notin DOMAIN context
    THEN [field |-> key, condition |-> ConditionText(condition), actual |-> NoneV,
          matched |-> FALSE, reason |-> "input missing in context"]
    ELSE FieldEntry(key, ConditionText(condition), CtxGet(context, key),
                    evaluate_condition_with_reason(ConditionText(condition),
                                                   CtxGet(context, key)))

\* RuleStep in which a passing field sets matched back to true
RuleStep_LastFieldWins(acc, item) ==
    [matched |-> item.matched,
     field_results |-> Append(acc.field_results, item),
     failed_fields |-> IF item.matched THEN acc.failed_fields
                       ELSE Append(acc.failed_fields, item)]

\* the accumulators matched, field_results and failed_fields after the
\* loop body has handled the field whose trace entry is item
RuleStep(acc, item) ==
    [matched |-> acc.matched /\ item.matched,
     field_results |-> Append(acc.field_results, item),
     failed_fields |-> IF item.matched THEN acc.failed_fields
                       ELSE Append(acc.failed_fields, item)]

\* a loop that leaves at the first field that fails
RECURSIVE RuleLoop_ShortCircuit(_, _, _, _)
RuleLoop_ShortCircuit(inputs, context, i, acc) ==
    IF i > Len(inputs) \/ ~acc.matched THEN acc
    ELSE RuleLoop_ShortCircuit(inputs, context, i + 1,
                               RuleStep(acc, FieldResult(inputs[i].field,
                                                         inputs[i].condition, context)))

\* the loop of evaluate_rule_with_trace from input i on
RECURSIVE RuleLoop(_, _, _, _)
RuleLoop(inputs, context, i, acc) ==
    IF i > Len(inputs) THEN acc
    ELSE RuleLoop(inputs, context, i + 1,
                  RuleStep(acc, FieldResult(inputs[i].field, inputs[i].condition,
                                            context)))

\* the dict returned after the loop
RuleTrace(acc) ==
    [matched |-> acc.matched, field_results |-> acc.field_results,
     failed_fields |-> acc.failed_fields,
     summary |-> IF acc.matched THEN "matched" ELSE "failed"]

\* the no-inputs return carries no failed_fields key; its readers use
\* .get("failed_fields", []), which is what the field holds here
evaluate_rule_with_trace(logic, context) ==
    IF LogicInputs(logic) = <<>>
    THEN [matched |-> TRUE, field_results |-> <<>>, failed_fields |-> <<>>,
          summary |-> "Rule has no input conditions"]
    ELSE RuleTrace(RuleLoop(LogicInputs(logic), context, 1,
                            [matched |-> TRUE, field_results |-> <<>>,
                             failed_fields |-> <<>>]))

evaluate_rule(logic, context) == evaluate_rule_with_trace(logic, context).matched

(***************************************************************************)
(* Hit-policy resolver.  A rule is [id, priority, logic]; logic.outputs is *)
(* a function from output keys to literals.                                *)
(***************************************************************************)
HitPolicy == {"FIRST_HIT", "COLLECT_ALL", "UNIQUE"}

\* Python None where a string is expected (rule_id, error)
None == "<None>"

\* a merge that keeps the value already present on a key of both
DictUpdate_KeepFirst(a, b) ==
    [k \in (DOMAIN a) \cup (DOMAIN b) |-> IF k \in DOMAIN a THEN a[k] ELSE b[k]]

\* dict.update: the keys of both, b's value on a key of both
DictUpdate(a, b) ==
    [k \in (DOMAIN a) \cup (DOMAIN b) |-> IF k \in DOMAIN b THEN b[k] ELSE a[k]]

\* TraceEntry that reads the priority's default instead of the rule's
TraceEntry_DefaultPriority(rule, trace_info) ==
    [rule_id |-> rule.id, priority |-> 0,
     matched |-> trace_info.matched,
     failed_fields |-> trace_info.failed_fields,
     field_results |-> trace_info.field_results,
     summary |-> trace_info.summary]

\* the entry appended to trace for a rule in detailed mode, trace_info
\* being evaluate_rule_with_trace of the rule
TraceEntry(rule, trace_info) ==
    [rule_id |-> rule.id, priority |-> rule.priority,
     matched |-> trace_info.matched,
     failed_fields |-> trace_info.failed_fields,
     field_results |-> trace_info.field_results,
     summary |-> trace_info.summary]

\* a loop body in which only the detailed mode evaluates the rule
RuleMatched_DetailedOnly(rule, context, detailed) ==
    detailed /\ evaluate_rule_with_trace(rule.logic, context).matched

\* matched of the loop body: trace_info["matched"] in detailed mode,
\* evaluate_rule otherwise
RuleMatched(rule, context, detailed) ==
    IF detailed THEN evaluate_rule_with_trace(rule.logic, context).matched
    ELSE evaluate_rule(rule.logic, context)

\* matched_rules and trace after the loop body has handled rule
WalkStep(rule, detailed, acc, matched, trace_info) ==
    [matched_rules |-> IF matched THEN Append(acc.matched_rules, rule)
                       ELSE acc.matched_rules,
     trace |-> IF detailed THEN Append(acc.trace, TraceEntry(rule, trace_info))
               ELSE acc.trace]

\* the two break statements of the loop
Breaks(hit_policy, matched, acc) ==
    \/ matched /\ hit_policy = "FIRST_HIT"
    \/ matched /\ hit_policy = "UNIQUE" /\ Len(acc.matched_rules) > 1

RECURSIVE WalkRules(_, _, _, _, _, _)
\* the end of the loop body of rule i, which has left next: break as the
\* hit policy tells, or go on with rule i + 1
WalkOn(hit_policy, rules, context, detailed, i, matched, next) ==
    IF Breaks(hit_policy, matched, next) THEN next
    ELSE WalkRules(hit_policy, rules, context, detailed, i + 1, next)

\* the for loop of _evaluate_rules from rule i on: appends to matched_rules
\* and trace
WalkRules(hit_policy, rules, context, detailed, i, acc) ==
    IF i > Len(rules) THEN acc
    ELSE WalkOn(hit_policy, rules, context, detailed, i,
                RuleMatched(rules[i], context, detailed),
                WalkStep(rules[i], detailed, acc,
                         RuleMatched(rules[i], context, detailed),
                         evaluate_rule_with_trace(rules[i].logic, context)))

\* final_output.update(outputs) over matched_rules, in order
RECURSIVE MergeOutputs(_, _)
MergeOutputs(matched_rules, final_output) ==
    IF matched_rules = <<>> THEN final_output
    ELSE MergeOutputs(Tail(matched_rules),
                      DictUpdate(final_output, matched_rules[1].logic.outputs))

\* NoMatchDecision that reports the absence of a match as an error
NoMatchDecision_AsError(hit_policy, trace) ==
    [result |-> <<>>, hit_policy |-> hit_policy, rule_id |-> None,
     matched_rule_ids |-> <<>>, error |-> "No rule matched", trace |-> trace]

\* the decision returned when matched_rules is empty
NoMatchDecision(hit_policy, trace) ==
    [result |-> <<>>, hit_policy |-> hit_policy, rule_id |-> None,
     matched_rule_ids |-> <<>>, error |-> None, trace |-> trace]

\* the ids of the matched rules, in the order they matched
MatchedRuleIds(matched_rules) ==
    [k \in 1..Len(matched_rules) |-> matched_rules[k].id]

\* the part of _evaluate_rules after the loop, on the matched_rules and
\* trace the loop has built
Resolve(hit_policy, matched_rules, trace) ==
    IF matched_rules = <<>>
    THEN NoMatchDecision(hit_policy, trace)
    ELSE IF hit_policy = "UNIQUE" /\ Len(matched_rules) > 1
    THEN [result |-> <<>>, hit_policy |-> hit_policy, rule_id |-> "CONFLICT",
          matched_rule_ids |-> MatchedRuleIds(matched_rules),
          error |-> "Unique Hit Policy Violation: Multiple rules matched",
          trace |-> trace]
    ELSE IF hit_policy = "COLLECT_ALL"
    THEN [result |-> MergeOutputs(matched_rules, <<>>),
          hit_policy |-> hit_policy, rule_id |-> "MULTIPLE",
          matched_rule_ids |-> MatchedRuleIds(matched_rules), error |-> None,
          trace |-> trace]
    ELSE [result |-> matched_rules[1].logic.outputs,
          hit_policy |-> hit_policy, rule_id |-> matched_rules[1].id,
          matched_rule_ids |-> MatchedRuleIds(matched_rules), error |-> None,
          trace |-> trace]

\* trace if detailed else []
ReturnedTrace(detailed, walk) == IF detailed THEN walk.trace ELSE <<>>

\* walk.matched_rules and the returned trace go to the policy branches
Resolved(hit_policy, detailed, walk) ==
    Resolve(hit_policy, walk.matched_rules, ReturnedTrace(detailed, walk))

_evaluate_rules(hit_policy, rules, context, detailed) ==
    Resolved(hit_policy, detailed,
             WalkRules(hit_policy, rules, context, detailed, 1,
                       [matched_rules |-> <<>>, trace |-> <<>>]))

\* DecisionEngine.evaluate_definition: the rules are walked as listed
evaluate_definition(table_definition, context, detailed) ==
    _evaluate_rules(table_definition.hit_policy, table_definition.rules,
                    context, detailed)

(***************************************************************************)
(* Schema validator.  A schema is a function from field names to type      *)
(* tags; the result is the kind of ValueError raised, Valid when none is.  *)
(***************************************************************************)
Valid == "valid"

InputKeys(logic) == {LogicInputs(logic)[i].field : i \in 1..Len(LogicInputs(logic))}

\* TypeCheck that lets a string field carry ranges and comparisons
TypeCheck_StringUnchecked(field_type, condition) ==
    LET stripped == Strip(PyStr(condition))
        is_cp == CpMatch(stripped)
        is_numeric_range == RangeMatch(stripped)
        has_comparison_prefix == ComparisonPrefix(stripped)
    IN  IF field_type = "boolean" /\ (is_numeric_range \/ has_comparison_prefix)
        THEN "boolean field does not support range or comparison logic"
        ELSE IF field_type = "boolean" /\ is_cp
        THEN "boolean field does not support CP pattern logic"
        ELSE IF field_type \in {"number", "decimal"} /\ is_cp
        THEN "numeric field does not support CP pattern logic"
        ELSE Valid

\* the type-poisoning check of one input field
TypeCheck(field_type, condition) ==
    LET stripped == Strip(PyStr(condition))
        is_cp == CpMatch(stripped)
        is_numeric_range == RangeMatch(stripped)
        has_comparison_prefix == ComparisonPrefix(stripped)
    IN  IF field_type = "boolean" /\ (is_numeric_range \/ has_comparison_prefix)
        THEN "boolean field does not support range or comparison logic"
        ELSE IF field_type = "boolean" /\ is_cp
        THEN "boolean field does not support CP pattern logic"
        ELSE IF field_type \in {"number", "decimal"} /\ is_cp
        THEN "numeric field does not support CP pattern logic"
        ELSE IF field_type = "string" /\ (is_numeric_range \/ has_comparison_prefix)
        THEN "string field does not support numeric range/comparison operators"
        ELSE Valid

\* the loop over inputs.items() from input i on
RECURSIVE CheckInputs(_, _, _)
CheckInputs(inputs, input_schema, i) ==
    IF i > Len(inputs) THEN Valid
    ELSE IF inputs[i].field \notin DOMAIN input_schema
    THEN "Input field not defined in table schema"
    ELSE IF TypeCheck(input_schema[inputs[i].field], inputs[i].condition) # Valid
    THEN TypeCheck(input_schema[inputs[i].field], inputs[i].condition)
    ELSE CheckInputs(inputs, input_schema, i + 1)

validate_rule_against_schema(rule_logic, input_schema, output_schema) ==
    IF \E key \in DOMAIN input_schema : key \notin InputKeys(rule_logic)
    THEN "Missing required input field"
    ELSE IF CheckInputs(LogicInputs(rule_logic), input_schema, 1) # Valid
    THEN CheckInputs(LogicInputs(rule_logic), input_schema, 1)
    ELSE IF \E key \in DOMAIN rule_logic.outputs : key \notin DOMAIN output_schema
    THEN "Output field not defined in table schema"
    ELSE Valid

\* bool(input_schema) or bool(output_schema)
_is_schema_enforced(table) == table.input_schema # <<>> \/ table.output_schema # <<>>

\* a loop that finds no condition invalid
FirstInvalidSyntax_Skipped(logic) == 0

\* the first input of the rule whose condition fails validate_syntax, 0 when
\* all pass (the loop "for key, condition in inputs.items()")
FirstInvalidSyntax(logic) ==
    LET inputs == LogicInputs(logic)
        bad == {i \in 1..Len(inputs) : ~validate_syntax(PyStr(inputs[i].condition))}
    IN  IF bad = {} THEN 0 ELSE CHOOSE i \in bad : \A j \in bad : i <= j

(***************************************************************************)
(* State.  table and rules are the persisted decision table and its rows   *)
(* (decision_tables, decision_rules); call is the operation under way with *)
(* its arguments, ret what it returned.  now is the clock, time.time() in   *)
(* whole seconds; client is the client object at work, the Auth0M2MClient  *)
(* of the process or the ExternalDataClient of a request, and threads the  *)
(* calls of get_access_token under way.                                    *)
(***************************************************************************)
VARIABLES table, rules, call, ret, now, client, threads

vars == <<table, rules, call, ret, now, client, threads>>

NoReturn == [done |-> FALSE]

\* no Auth0M2MClient has been constructed
NoClient == [constructed |-> FALSE]
Return(v) == [done |-> TRUE, value |-> v]

NoTable == [exists |-> FALSE, hit_policy |-> "FIRST_HIT",
            input_schema |-> <<>>, output_schema |-> <<>>]

(***************************************************************************)
(* Inputs of the condition grammar: range conditions written from a pair   *)
(* of decimal numerals, and a few other texts.                             *)
(***************************************************************************)
Signs == {[text |-> <<>>, sg |-> 1], [text |-> <<"-">>, sg |-> 0 - 1],
          [text |-> <<"+">>, sg |-> 1]}

Fractions == {[text |-> <<>>, f |-> 0], [text |-> <<".", "0">>, f |-> 0],
              [text |-> <<".", "5">>, f |-> 5]}

\* numerals with their value in tenths: sign, integer part, decimals
Numerals ==
    {[text |-> sign.text \o NatText(ip) \o frac.text,
      tenths |-> sign.sg * (ip * 10 + frac.f)] :
        sign \in Signs, ip \in 0..MaxValue, frac \in Fractions}
    \cup {[text |-> sign.text \o <<".", "5">>, tenths |-> sign.sg * 5] :
        sign \in Signs}

Pads == {<<>>, <<" ">>}

NoForm == [kind |-> "text", min |-> 0, max |-> 0]

RangeInputs ==
    {[condition_str |-> pad \o lo.text \o <<".", ".">> \o hi.text \o pad,
      form |-> [kind |-> "range", min |-> lo.tenths, max |-> hi.tenths]] :
        lo \in Numerals, hi \in Numerals, pad \in Pads}

OtherTexts ==
    {<<>>, <<" ">>, <<"a">>, <<"1">>, <<">", "1">>, <<"1", ".", ".">>,
     <<".", ".", "2">>, <<"1", ".", ".", "a">>,
     <<"I", "N", " ", "(", "1", ")">>, <<"C", "P", " ", "a", "*">>}

OtherInputs == {[condition_str |-> txt, form |-> NoForm] : txt \in OtherTexts}

\* the literals of quoted IN sets
Literals ==
    {<<"a">>, <<"a", "1">>, <<"1">>, <<"T", "r", "u", "e">>, <<"O", "'", "C">>}

Quotes == {"'", "\""}

\* txt with a backslash before every quote character q
RECURSIVE Escaped(_, _)
Escaped(txt, q) ==
    IF txt = <<>> THEN <<>>
    ELSE (IF txt[1] = q THEN <<"\\", q>> ELSE <<txt[1]>>) \o Escaped(Tail(txt), q)

\* the literal txt written between quotes q
Quoted(txt, q) == <<q>> \o Escaped(txt, q) \o <<q>>

InPrefixes == {<<"I", "N", " ", "(">>, <<"i", "n", "(">>}

\* IN conditions over one or two quoted literals, with the set they denote
QuotedInInputs ==
    {[condition_str |-> pre \o Quoted(a, q) \o <<")">>,
      form |-> [kind |-> "in_quoted", literals |-> {a}]] :
        pre \in InPrefixes, a \in Literals, q \in Quotes}
    \cup {[condition_str |-> pre \o Quoted(a, q) \o <<",", " ">> \o Quoted(b, r)
                                \o <<")">>,
           form |-> [kind |-> "in_quoted", literals |-> {a, b}]] :
        pre \in InPrefixes, a \in Literals, b \in Literals,
        q \in Quotes, r \in Quotes}

\* IN conditions over one or two bare numerals, with the set of their values
\* in tenths
NumericInInputs ==
    {[condition_str |-> <<"I", "N", " ", "(">> \o a.text \o <<")">>,
      form |-> [kind |-> "in_numeric", numbers |-> {a.tenths}]] : a \in Numerals}
    \cup {[condition_str |-> <<"I", "N", " ", "(">> \o a.text \o <<",", " ">>
                                \o b.text \o <<")">>,
           form |-> [kind |-> "in_numeric", numbers |-> {a.tenths, b.tenths}]] :
        a \in Numerals, b \in Numerals}

\* texts that are no range, comparison, IN (...) or CP form
LiteralTexts ==
    {<<"G", "o", "l", "d">>, <<"a", "b">>, <<"1", "a">>, <<"I", "N", "K">>,
     <<"C", "P", "U">>, <<"a", ".", ".", "b">>}

LiteralInputs ==
    {[condition_str |-> txt, form |-> [kind |-> "literal", text |-> txt]] :
        txt \in LiteralTexts}

ConditionInputs ==
    RangeInputs \cup OtherInputs \cup QuotedInInputs \cup NumericInInputs
    \cup LiteralInputs

NumericValues ==
    {IntV(k) : k \in (0 - MaxValue)..(MaxValue + 1)}
    \cup {FloatV(10 * k + 5, 10) : k \in (0 - 1)..MaxValue}
    \cup {FloatV(k, 1) : k \in 0..1}
    \cup {BoolV(TRUE), BoolV(FALSE)}

OtherValues ==
    {StrV(<<"1">>), NoneV, ListV, DictV}
    \cup {StrV(txt) : txt \in Literals \cup LiteralTexts}

InputValues == NumericValues \cup OtherValues

(***************************************************************************)
(* Specification of the condition grammar: one call of evaluate_condition  *)
(* or validate_syntax on inputs drawn from the sets above.                 *)
(***************************************************************************)
InitCond ==
    /\ table = NoTable
    /\ rules = <<>>
    /\ ret = NoReturn
    /\ now = 0
    /\ client = NoClient
    /\ threads = <<>>
    /\ \/ \E c \in ConditionInputs, v \in InputValues :
              call = [op |-> "evaluate_condition", condition_str |-> c.condition_str,
                      input_value |-> v, form |-> c.form]
       \/ \E c \in ConditionInputs :
              call = [op |-> "validate_syntax", condition_str |-> c.condition_str,
                      input_value |-> NoneV, form |-> c.form]

EvaluateCondition ==
    /\ call.op = "evaluate_condition"
    /\ ~ret.done
    /\ ret' = Return(evaluate_condition_with_reason(call.condition_str,
                                                    call.input_value))
    /\ UNCHANGED <<table, rules, call, now, client, threads>>

ValidateSyntax ==
    /\ call.op = "validate_syntax"
    /\ ~ret.done
    /\ ret' = Return(validate_syntax(call.condition_str))
    /\ UNCHANGED <<table, rules, call, now, client, threads>>

NextCond == EvaluateCondition \/ ValidateSyntax

SpecCond == InitCond /\ [][NextCond]_vars

\* the value of a numeric input in tenths
Tenths(v) == v.n * (10 \div v.d)

\* C10: for a range condition "min..max" and a numeric value v,
\* evaluate_condition returns (min <= v <= max), both bounds inclusive, when
\* min <= max, and false when min > max; validate_syntax returns false on
\* min > max.
C10_RangeInclusive ==
    (ret.done /\ call.form.kind = "range") =>
        /\ (call.op = "evaluate_condition" /\ IsNumeric(call.input_value)) =>
               ret.value.matched =
                   (/\ call.form.min <= call.form.max
                    /\ call.form.min <= Tenths(call.input_value)
                    /\ Tenths(call.input_value) <= call.form.max)
        /\ (call.op = "validate_syntax" /\ call.form.min > call.form.max) =>
               ret.value = FALSE

\* a value on the upper bound of a proper range was evaluated and matched
C10_Witness ==
    /\ ret.done
    /\ call.op = "evaluate_condition"
    /\ call.form.kind = "range"
    /\ call.form.min < call.form.max
    /\ IsNumeric(call.input_value)
    /\ Tenths(call.input_value) = call.form.max
    /\ ret.value.matched

\* C11: for an IN condition over quoted literals denoting the set S and a
\* string, number or boolean value x, evaluate_condition returns
\* (str(x) in S); for an IN condition over bare numerals and a numeric x it
\* returns whether some numeral equals x.
C11_InMembership ==
    (ret.done /\ call.op = "evaluate_condition") =>
        /\ (/\ call.form.kind = "in_quoted"
            /\ call.input_value.t \in {"str", "int", "float", "bool"}) =>
               ret.value.matched = (PyStr(call.input_value) \in call.form.literals)
        /\ (/\ call.form.kind = "in_numeric"
            /\ call.input_value.t \in {"int", "float"}) =>
               ret.value.matched = (Tenths(call.input_value) \in call.form.numbers)

\* C13: a condition that is no range, comparison, IN (...) or CP form passes
\* validate_syntax and matches a string value exactly when the two are the
\* same text, also when it begins with IN or CP or contains "..".
C13_LiteralEquality ==
    (ret.done /\ call.form.kind = "literal") =>
        /\ call.op = "validate_syntax" => ret.value = TRUE
        /\ (call.op = "evaluate_condition" /\ call.input_value.t = "str") =>
               ret.value.matched = (call.condition_str = call.input_value.s)

(***************************************************************************)
(* Specification of evaluate_condition on values of every type, the       *)
(* integers no float can hold among them.                                  *)
(***************************************************************************)
AnyValues == InputValues \cup {HugeIntV}

AnyConditions ==
    OtherInputs \cup QuotedInInputs
    \cup {c \in RangeInputs : c.form.min = 10}
    \cup {c \in NumericInInputs : 10 \in c.form.numbers}

InitAny ==
    /\ table = NoTable
    /\ rules = <<>>
    /\ ret = NoReturn
    /\ now = 0
    /\ client = NoClient
    /\ threads = <<>>
    /\ \E c \in AnyConditions, v \in AnyValues :
           call = [op |-> "evaluate_condition", condition_str |-> c.condition_str,
                   input_value |-> v, form |-> c.form]

NextAny == EvaluateCondition

SpecAny == InitAny /\ [][NextAny]_vars

\* the condition of the call is a well-formed range or comparison
NumericCondition ==
    \/ RangeMatch(Strip(call.condition_str))
    \/ ComparisonMatch(Strip(call.condition_str))

\* C12: evaluate_condition never raises: for every condition and every value
\* it returns a boolean, and a value that float() rejects gives false on a
\* range or comparison condition.
C12_NeverRaises ==
    (ret.done /\ call.op = "evaluate_condition") =>
        /\ ~Raised(ret.value)
        /\ ret.value.matched \in BOOLEAN
        /\ (NumericCondition /\ ~FloatOk(call.input_value)) =>
               ret.value.matched = FALSE

(***************************************************************************)
(* Inputs of the rule evaluator: rules over the first MaxInputs field      *)
(* names, contexts holding any subset of them.                             *)
(***************************************************************************)
MaxInputs == 2

FieldNames == <<"x", "y", "z", "w">>

Fields == {FieldNames[i] : i \in 1..MaxInputs}

\* conditions a rule may carry: a range, a comparison, a literal, a blank
\* text and null
RuleConditions ==
    {StrV(<<"1", ".", ".", "2">>), StrV(<<">", "1">>), StrV(<<"a">>),
     StrV(<<" ">>), NoneV}

ContextValues == {IntV(1), IntV(3), StrV(<<"a">>), NoneV}

\* dicts as sequences of pairs with distinct keys, in insertion order
InputMaps ==
    UNION {{m \in [1..k -> [field : Fields, condition : RuleConditions]] :
               \A i, j \in 1..k : i # j => m[i].field # m[j].field} :
           k \in 0..MaxInputs}

Contexts == UNION {[D -> ContextValues] : D \in SUBSET Fields}

RuleLogics ==
    {[has_inputs |-> TRUE, inputs |-> m, outputs |-> <<>>] : m \in InputMaps}
    \cup {[has_inputs |-> FALSE, inputs |-> <<>>, outputs |-> <<>>]}

InitRule ==
    /\ table = NoTable
    /\ rules = <<>>
    /\ ret = NoReturn
    /\ now = 0
    /\ client = NoClient
    /\ threads = <<>>
    /\ \E op \in {"evaluate_rule", "evaluate_rule_with_trace"},
          logic \in RuleLogics, context \in Contexts :
              call = [op |-> op, logic |-> logic, context |-> context]

EvaluateRule ==
    /\ call.op = "evaluate_rule"
    /\ ~ret.done
    /\ ret' = Return(evaluate_rule(call.logic, call.context))
    /\ UNCHANGED <<table, rules, call, now, client, threads>>

EvaluateRuleWithTrace ==
    /\ call.op = "evaluate_rule_with_trace"
    /\ ~ret.done
    /\ ret' = Return(evaluate_rule_with_trace(call.logic, call.context))
    /\ UNCHANGED <<table, rules, call, now, client, threads>>

NextRule == EvaluateRule \/ EvaluateRuleWithTrace

SpecRule == InitRule /\ [][NextRule]_vars

\* the declared inputs of the rule under evaluation
CallInputs == LogicInputs(call.logic)

\* input i of the rule is declared with a non-blank condition
NonBlank(i) == Strip(ConditionText(CallInputs[i].condition)) # <<>>

\* input i of the rule names a field the context does not hold
Missing(i) == CallInputs[i].field \notin DOMAIN call.context

\* the trace entries of field key
EntriesOf(key) ==
    {j \in 1..Len(ret.value.field_results) : ret.value.field_results[j].field = key}

\* the trace holds an entry for input i, and every such entry is a failure
\* with reason "input missing in context"
ReportedMissing(i) ==
    /\ EntriesOf(CallInputs[i].field) # {}
    /\ \A j \in EntriesOf(CallInputs[i].field) :
           /\ ret.value.field_results[j].matched = FALSE
           /\ ret.value.field_results[j].reason = "input missing in context"

\* C8 as claimed: a declared field absent from the context makes the rule
\* not match and its trace entry read "input missing in context", whatever
\* the condition text of the field, a blank one included.
C8_MissingFieldAnyCondition ==
    ret.done =>
        \A i \in 1..Len(CallInputs) :
            Missing(i) =>
                /\ call.op = "evaluate_rule" => ret.value = FALSE
                /\ call.op = "evaluate_rule_with_trace" => ReportedMissing(i)

\* C8 amended: a declared field with a non-blank condition that is absent
\* from the context makes the rule not match, and its trace entry has
\* matched = false and reason "input missing in context"; an absent field
\* whose condition is blank or null is a wildcard and its entry has
\* matched = true and reason "blank condition (wildcard)".
C8_MissingFieldNonBlank ==
    ret.done =>
        \A i \in 1..Len(CallInputs) :
            Missing(i) =>
                IF NonBlank(i)
                THEN /\ call.op = "evaluate_rule" => ret.value = FALSE
                     /\ call.op = "evaluate_rule_with_trace" =>
                            ReportedMissing(i) /\ ~ret.value.matched
                ELSE call.op = "evaluate_rule_with_trace" =>
                         \A j \in EntriesOf(CallInputs[i].field) :
                             /\ ret.value.field_results[j].matched
                             /\ ret.value.field_results[j].reason
                                    = "blank condition (wildcard)"

\* a rule whose second field is missing from the context, after a first
\* field that passes, was traced
C8_Witness ==
    /\ ret.done
    /\ call.op = "evaluate_rule_with_trace"
    /\ Len(CallInputs) = 2
    /\ ~Missing(1)
    /\ ret.value.field_results[1].matched
    /\ Missing(2) /\ NonBlank(2)
    /\ ~ret.value.matched

\* field i of the rule passes its condition against the context
FieldPasses(i) ==
    evaluate_condition(ConditionText(CallInputs[i].condition),
                       CtxGet(call.context, CallInputs[i].field))

\* C9: evaluate_rule is true exactly when every declared input field passes
\* its condition against the context; a rule with an empty or absent inputs
\* map matches every context.
C9_RuleIsConjunction ==
    (ret.done /\ call.op = "evaluate_rule") =>
        /\ ret.value = (\A i \in 1..Len(CallInputs) : FieldPasses(i))
        /\ (~call.logic.has_inputs \/ call.logic.inputs = <<>>) => ret.value = TRUE

\* a rule of two fields was evaluated whose first field fails and whose
\* second passes
C9_Witness ==
    /\ ret.done
    /\ call.op = "evaluate_rule"
    /\ Len(CallInputs) = 2
    /\ ~FieldPasses(1)
    /\ FieldPasses(2)
    /\ ret.value = FALSE

\* the entries of a trace that did not match, in their order
FailedOf(field_results) == SelectSeq(field_results, LAMBDA entry : ~entry.matched)

\* C27: evaluate_rule_with_trace does not short-circuit: for a rule with a
\* non-empty inputs map and any context, field_results holds one entry for
\* every declared input field in declaration order, also for the fields
\* after one that fails or is missing; failed_fields is the sub-list of the
\* entries of field_results with matched = false, and matched is true
\* exactly when failed_fields is empty.
C27_TraceIsComplete ==
    (ret.done /\ call.op = "evaluate_rule_with_trace" /\ CallInputs # <<>>) =>
        /\ Len(ret.value.field_results) = Len(CallInputs)
        /\ \A i \in 1..Len(CallInputs) :
               ret.value.field_results[i].field = CallInputs[i].field
        /\ ret.value.failed_fields = FailedOf(ret.value.field_results)
        /\ ret.value.matched <=> (ret.value.failed_fields = <<>>)

\* a rule of two fields was traced whose first field is missing from the
\* context and whose second, evaluated all the same, passes
C27_Witness ==
    /\ ret.done
    /\ call.op = "evaluate_rule_with_trace"
    /\ Len(CallInputs) = 2
    /\ Missing(1) /\ NonBlank(1)
    /\ Len(ret.value.field_results) = 2
    /\ ret.value.field_results[2].matched
    /\ ret.value.field_results[2].reason # "blank condition (wildcard)"
    /\ Len(ret.value.failed_fields) = 1
    /\ ~ret.value.matched

(***************************************************************************)
(* Specification of the schema validator: one call of                      *)
(* validate_rule_against_schema on a rule over fields x and y, outputs o1  *)
(* and o2, and schemas over subsets of them.                               *)
(***************************************************************************)
SchemaTypes == {"string", "number", "decimal", "boolean"}

SchemaFields == {"x", "y"}

OutputFields == {"o1", "o2"}

InputSchemas == UNION {[D -> SchemaTypes] : D \in SUBSET SchemaFields}

OutputSchemas == UNION {[D -> {"string"}] : D \in SUBSET OutputFields}

OutputMaps == UNION {[D -> {"A"}] : D \in SUBSET OutputFields}

\* condition texts with the form each one is written in
KindedConditions ==
    {[text |-> <<"1", ".", ".", "2">>, kind |-> "range"],
     [text |-> <<">", "1">>, kind |-> "comparison"],
     [text |-> <<">", "a">>, kind |-> "malformed comparison"],
     [text |-> <<"C", "P", " ", "a", "*">>, kind |-> "cp"],
     [text |-> <<"I", "N", " ", "(", "1", ")">>, kind |-> "in"],
     [text |-> <<"1", ".", ".", "a">>, kind |-> "literal"],
     [text |-> <<"a">>, kind |-> "literal"]}

SchemaInputMaps ==
    UNION {{m \in [1..k -> [field : SchemaFields,
                            condition : {StrV(c.text) : c \in KindedConditions}]] :
               \A i, j \in 1..k : i # j => m[i].field # m[j].field} :
           k \in 0..2}

InitSchema ==
    /\ table = NoTable
    /\ rules = <<>>
    /\ ret = NoReturn
    /\ now = 0
    /\ client = NoClient
    /\ threads = <<>>
    /\ \E inputs \in SchemaInputMaps, outputs \in OutputMaps,
          input_schema \in InputSchemas, output_schema \in OutputSchemas :
           call = [op |-> "validate_rule_against_schema",
                   logic |-> [has_inputs |-> TRUE, inputs |-> inputs,
                              outputs |-> outputs],
                   input_schema |-> input_schema, output_schema |-> output_schema]

ValidateRuleAgainstSchema ==
    /\ call.op = "validate_rule_against_schema"
    /\ ~ret.done
    /\ ret' = Return(validate_rule_against_schema(call.logic, call.input_schema,
                                                  call.output_schema))
    /\ UNCHANGED <<table, rules, call, now, client, threads>>

NextSchema == ValidateRuleAgainstSchema

SpecSchema == InitSchema /\ [][NextSchema]_vars

\* the form the condition of input i of the rule is written in
KindAt(i) ==
    (CHOOSE c \in KindedConditions : StrV(c.text) = CallInputs[i].condition).kind

\* (a) some input_schema field is absent from the rule's inputs
MissingRequired ==
    \E key \in DOMAIN call.input_schema :
        \A i \in 1..Len(CallInputs) : CallInputs[i].field # key

\* (b) some input of the rule is not in input_schema
GhostInput ==
    \E i \in 1..Len(CallInputs) : CallInputs[i].field \notin DOMAIN call.input_schema

\* (c) some output of the rule is not in output_schema
GhostOutput ==
    \E key \in DOMAIN call.logic.outputs : key \notin DOMAIN call.output_schema

\* (d) a declared field carries a condition of a form its type excludes,
\* comparisons being the forms in the set given
TypeClash(comparisons) ==
    \E i \in 1..Len(CallInputs) :
        /\ CallInputs[i].field \in DOMAIN call.input_schema
        /\ LET type == call.input_schema[CallInputs[i].field]
           IN  \/ type = "boolean"
                     /\ KindAt(i) \in {"range", "cp"} \cup comparisons
               \/ type \in {"number", "decimal"} /\ KindAt(i) = "cp"
               \/ type = "string" /\ KindAt(i) \in {"range"} \cup comparisons

\* C14 as stated: validate_rule_against_schema fails exactly when (a), (b),
\* (c) or (d) holds, a comparison condition being an operator followed by
\* a number.
C14_SchemaValidationExact ==
    (ret.done /\ call.op = "validate_rule_against_schema") =>
        ((ret.value # Valid) <=>
            (MissingRequired \/ GhostInput \/ GhostOutput
                \/ TypeClash({"comparison"})))

\* C14: validate_rule_against_schema fails exactly when (a), (b), (c) or (d)
\* holds, where every condition that begins with < or > counts as a
\* comparison, whether or not a number follows the operator.
C14_SchemaValidationByPrefix ==
    (ret.done /\ call.op = "validate_rule_against_schema") =>
        ((ret.value # Valid) <=>
            (MissingRequired \/ GhostInput \/ GhostOutput
                \/ TypeClash({"comparison", "malformed comparison"})))

\* a rule that breaks the schema only by a comparison on a string field was
\* validated and rejected
C14_Witness ==
    /\ ret.done
    /\ call.op = "validate_rule_against_schema"
    /\ ~MissingRequired /\ ~GhostInput /\ ~GhostOutput
    /\ \E i \in 1..Len(CallInputs) :
           /\ CallInputs[i].field \in DOMAIN call.input_schema
           /\ call.input_schema[CallInputs[i].field] = "string"
           /\ KindAt(i) = "comparison"
    /\ ret.value # Valid

(***************************************************************************)
(* Inputs of the decision engine: rule logics over field x, table schemas, *)
(* contexts.                                                               *)
(***************************************************************************)
Inputs1(field, text) == <<[field |-> field, condition |-> StrV(text)]>>

Logic(inputs, outputs) == [has_inputs |-> TRUE, inputs |-> inputs, outputs |-> outputs]

\* the logics of the rules handed to the engine directly:
\* x in 1..2 -> o1 = A;  x > 1 -> o1 = B, o2 = C;  x blank -> o2 = D
EngineLogics ==
    {Logic(Inputs1("x", <<"1", ".", ".", "2">>), "o1" :> "A"),
     Logic(Inputs1("x", <<">", "1">>), "o1" :> "B" @@ "o2" :> "C"),
     Logic(Inputs1("x", <<" ">>), "o2" :> "D")}

\* the logics of the rules POSTed to /simulate: those, and
\* x in 2..1 (an inverted range) -> nothing
SimulatedLogics ==
    EngineLogics \cup {Logic(Inputs1("x", <<"2", ".", ".", "1">>), <<>>)}

\* the logics of the rules POSTed to the persisted table
RequestLogics ==
    {Logic(Inputs1("x", <<"1", ".", ".", "2">>), "o1" :> "A"),
     Logic(Inputs1("x", <<">", "1">>), "o1" :> "B" @@ "o2" :> "C"),
     Logic(Inputs1("x", <<"2", ".", ".", "1">>), <<>>)}

Unschemed == [input_schema |-> <<>>, output_schema |-> <<>>]

Schemed == [input_schema |-> "x" :> "number",
            output_schema |-> "o1" :> "string" @@ "o2" :> "string"]

TableSchemas == {Unschemed, Schemed}

EngineContexts == {<<>>, "x" :> IntV(1), "x" :> IntV(2)}

Priorities == 1..MaxPriority

\* str(uuid) of the k-th row ever inserted
RuleId(k) == "r" \o ToString(k)

(***************************************************************************)
(* Specification of the resolver on ad-hoc definitions: one call of        *)
(* DecisionEngine.evaluate_definition, or one POST /simulate.              *)
(***************************************************************************)
\* rule lists of an ad-hoc definition: up to max_len different rules over
\* logics, in any order; rule k carries id r<k>, or no id
DefinitionRules(with_ids, logics, max_len) ==
    UNION {{[k \in 1..n |-> [id |-> IF with_ids THEN RuleId(k) ELSE None,
                             priority |-> rs[k].priority,
                             logic |-> rs[k].logic]] :
               rs \in {f \in [1..n -> [priority : Priorities, logic : logics]] :
                           \A i, j \in 1..n : i # j => f[i] # f[j]}} :
           n \in 0..max_len}

\* the definitions POST /simulate is called with, each with up to MaxStored
\* rules
SimulatedDefinitions ==
    {[sch |-> Schemed, with_ids |-> FALSE], [sch |-> Schemed, with_ids |-> TRUE],
     [sch |-> Unschemed, with_ids |-> TRUE]}

InitEngine ==
    /\ table = NoTable
    /\ rules = <<>>
    /\ ret = NoReturn
    /\ now = 0
    /\ client = NoClient
    /\ threads = <<>>
    /\ \/ \E hp \in HitPolicy, rs \in DefinitionRules(TRUE, EngineLogics, MaxRules),
             context \in EngineContexts, detailed \in BOOLEAN :
              call = [op |-> "evaluate_definition",
                      table_definition |->
                          [hit_policy |-> hp, input_schema |-> <<>>,
                           output_schema |-> <<>>, rules |-> rs],
                      context |-> context, detailed |-> detailed]
       \/ \E hp \in HitPolicy, sd \in SimulatedDefinitions,
             context \in EngineContexts, detailed \in BOOLEAN :
             \E rs \in DefinitionRules(sd.with_ids, SimulatedLogics, MaxStored) :
              call = [op |-> "simulate",
                      table_definition |->
                          [hit_policy |-> hp, input_schema |-> sd.sch.input_schema,
                           output_schema |-> sd.sch.output_schema, rules |-> rs],
                      context |-> context, detailed |-> detailed]

\* a direct call of DecisionEngine.evaluate_definition
EvaluateDefinition ==
    /\ call.op = "evaluate_definition"
    /\ ~ret.done
    /\ ret' = Return([status |-> 200,
                      body |-> evaluate_definition(call.table_definition,
                                                   call.context, call.detailed)])
    /\ UNCHANGED <<table, rules, call, now, client, threads>>

\* the first rule of the definition that simulate_rules rejects, 0 when none
FirstRejected(table_definition) ==
    LET bad == {k \in 1..Len(table_definition.rules) :
                   \/ validate_rule_against_schema(
                          table_definition.rules[k].logic,
                          table_definition.input_schema,
                          table_definition.output_schema) # Valid
                   \/ FirstInvalidSyntax(table_definition.rules[k].logic) # 0}
    IN  IF bad = {} THEN 0 ELSE CHOOSE k \in bad : \A j \in bad : k <= j

\* str(rule.get("id") or f"sim-{rule.get('priority', 0)}")
SimRuleId(rule) ==
    IF rule.id = None THEN "sim-" \o ToString(rule.priority) ELSE rule.id

\* normalized_rules of simulate_rules
NormalizedRules(table_definition) ==
    [k \in 1..Len(table_definition.rules) |->
        [id |-> SimRuleId(table_definition.rules[k]),
         priority |-> table_definition.rules[k].priority,
         logic |-> table_definition.rules[k].logic]]

\* the response of POST /simulate
simulate_rules(table_definition, context, detailed) ==
    LET k == FirstRejected(table_definition)
    IN  IF k # 0
        THEN LET logic == table_definition.rules[k].logic
                 schema_error == validate_rule_against_schema(logic,
                                     table_definition.input_schema,
                                     table_definition.output_schema)
             IN  [status |-> 400,
                  detail |-> IF schema_error # Valid THEN schema_error
                             ELSE "Invalid syntax for field"]
        ELSE [status |-> 200,
              body |-> evaluate_definition(
                           [hit_policy |-> table_definition.hit_policy,
                            rules |-> NormalizedRules(table_definition)],
                           context, detailed)]

Simulate ==
    /\ call.op = "simulate"
    /\ ~ret.done
    /\ ret' = Return(simulate_rules(call.table_definition, call.context,
                                    call.detailed))
    /\ UNCHANGED <<table, rules, call, now, client, threads>>

NextEngine == EvaluateDefinition \/ Simulate

SpecEngine == InitEngine /\ [][NextEngine]_vars

(***************************************************************************)
(* Properties of the resolver, stated on the rule list it was handed.      *)
(***************************************************************************)
\* the resolver ran and returned a decision
Decided ==
    /\ ret.done
    /\ call.op \in {"evaluate_definition", "simulate", "evaluate"}
    /\ ret.value.status = 200

Decision == ret.value.body

\* the rule list handed to _evaluate_rules, in walk order
Walked ==
    CASE call.op = "simulate" -> NormalizedRules(call.table_definition)
      [] call.op = "evaluate_definition" -> call.table_definition.rules
      [] call.op = "evaluate" -> call.loaded

\* positions in the walk of the rules that match the context
Matching == {i \in 1..Len(Walked) : evaluate_rule(Walked[i].logic, call.context)}

\* the j-th smallest element of a set of positions
Nth(S, j) == CHOOSE i \in S : Cardinality({m \in S : m <= i}) = j

\* the ids of the rules at the positions S, in walk order
IdsAt(S) == [j \in 1..Cardinality(S) |-> Walked[Nth(S, j)].id]

OutputsAt(i) == Walked[i].logic.outputs

\* C2 as claimed: under UNIQUE, when two or more rules match, the result is
\* empty, rule_id is "CONFLICT", error is not null and matched_rule_ids
\* holds the id of every rule of the list that matches.
C2_UniqueConflictListsAll ==
    (Decided /\ Decision.hit_policy = "UNIQUE" /\ Cardinality(Matching) >= 2) =>
        /\ Decision.result = <<>>
        /\ Decision.rule_id = "CONFLICT"
        /\ Decision.error # None
        /\ \A i \in Matching :
               \E k \in 1..Len(Decision.matched_rule_ids) :
                   Decision.matched_rule_ids[k] = Walked[i].id

\* C3 as claimed: under COLLECT_ALL, rule_id is "MULTIPLE" when more than
\* one rule matched, the id of the matching rule when exactly one matched,
\* and null when none matched.
C3_CollectAllRuleId ==
    (Decided /\ Decision.hit_policy = "COLLECT_ALL") =>
        Decision.rule_id =
            IF Cardinality(Matching) > 1 THEN "MULTIPLE"
            ELSE IF Cardinality(Matching) = 1 THEN Walked[Nth(Matching, 1)].id
            ELSE None

\* C4: under COLLECT_ALL the result's keys are the union of the output keys
\* of the matching rules, each key holds the value given by the last
\* matching rule in walk order that defines it, and matched_rule_ids lists
\* the matching rules in walk order.
C4_CollectAllMerge ==
    (Decided /\ Decision.hit_policy = "COLLECT_ALL") =>
        /\ DOMAIN Decision.result = UNION {DOMAIN OutputsAt(i) : i \in Matching}
        /\ \A key \in DOMAIN Decision.result :
               LET defining == {i \in Matching : key \in DOMAIN OutputsAt(i)}
                   last == CHOOSE i \in defining : \A j \in defining : j <= i
               IN  Decision.result[key] = OutputsAt(last)[key]
        /\ Decision.matched_rule_ids = IdsAt(Matching)

\* two matching rules gave different values to one key, and the later won
C4_Witness ==
    /\ Decided
    /\ Decision.hit_policy = "COLLECT_ALL"
    /\ \E i, j \in Matching :
           /\ i < j
           /\ \E key \in (DOMAIN OutputsAt(i)) \cap (DOMAIN OutputsAt(j)) :
                  /\ OutputsAt(i)[key] # OutputsAt(j)[key]
                  /\ Decision.result[key] = OutputsAt(j)[key]
                  /\ \A m \in Matching : m > j => key \notin DOMAIN OutputsAt(m)

\* C5: for every hit policy and rule list, when no rule matches the
\* decision has an empty result, rule_id null, no matched rule ids and
\* error null.
C5_NoMatchIsEmpty ==
    (ret.done /\ call.op \in {"evaluate_definition", "simulate"}) =>
        /\ call.op = "evaluate_definition" => ret.value.status = 200
        /\ (Decided /\ Matching = {}) =>
               /\ Decision.result = <<>>
               /\ Decision.rule_id = None
               /\ Decision.matched_rule_ids = <<>>
               /\ Decision.error = None

\* a list of three rules was walked under UNIQUE and none matched
C5_Witness ==
    /\ Decided
    /\ Decision.hit_policy = "UNIQUE"
    /\ Len(Walked) = 3
    /\ Matching = {}
    /\ Decision.rule_id = None

\* C6 as claimed: on an ad-hoc definition FIRST_HIT returns the matching
\* rule with the smallest priority, and COLLECT_ALL gives each key the value
\* of the matching rule with the largest priority that defines it.
C6_DefinitionWalkedByPriority ==
    (Decided /\ call.op \in {"evaluate_definition", "simulate"}) =>
        /\ (Decision.hit_policy = "FIRST_HIT" /\ Matching # {}) =>
               \E i \in Matching :
                   /\ Decision.rule_id = Walked[i].id
                   /\ Decision.result = OutputsAt(i)
                   /\ \A j \in Matching : Walked[i].priority <= Walked[j].priority
        /\ Decision.hit_policy = "COLLECT_ALL" =>
               \A key \in DOMAIN Decision.result :
                   \E i \in Matching :
                       /\ key \in DOMAIN OutputsAt(i)
                       /\ Decision.result[key] = OutputsAt(i)[key]
                       /\ \A j \in Matching :
                              key \in DOMAIN OutputsAt(j) =>
                                  Walked[j].priority <= Walked[i].priority

\* the position at which the walk stops: the first match under FIRST_HIT,
\* the second match under UNIQUE, the end of the list otherwise
LastEvaluated ==
    IF Decision.hit_policy = "FIRST_HIT" /\ Matching # {} THEN Nth(Matching, 1)
    ELSE IF Decision.hit_policy = "UNIQUE" /\ Cardinality(Matching) >= 2
    THEN Nth(Matching, 2)
    ELSE Len(Walked)

\* what _evaluate_rules returns for the inputs of the call under way in
\* the other mode, detailed for a plain call and plain for a detailed one
OtherMode(decision_call, walked) ==
    _evaluate_rules(decision_call.table_definition.hit_policy, walked,
                    decision_call.context, ~decision_call.detailed)

SameDecision(decision, other) ==
    /\ decision.result = other.result
    /\ decision.rule_id = other.rule_id
    /\ decision.matched_rule_ids = other.matched_rule_ids
    /\ decision.error = other.error
    /\ decision.hit_policy = other.hit_policy

\* C29: detailed mode does not change the decision: for every hit policy,
\* rule list and context, _evaluate_rules returns the same result, rule_id,
\* matched_rule_ids and error with detailed = true and with detailed =
\* false, the two differing in trace only; and the call leaves the context
\* and the logic of the rules as they were.
C29_DetailedSameDecision ==
    /\ [](Decided => SameDecision(Decision, OtherMode(call, Walked)))
    /\ [][call' = call]_vars

\* a detailed COLLECT_ALL walk has merged two matched rules after a rule
\* that failed, and the plain walk of the same rules returns no trace
C29_Witness ==
    /\ Decided
    /\ call.detailed
    /\ call.table_definition.hit_policy = "COLLECT_ALL"
    /\ Len(Decision.matched_rule_ids) = 2
    /\ Len(Decision.trace) = 3
    /\ ~Decision.trace[1].matched
    /\ OtherMode(call, Walked).trace = <<>>

\* C7: trace is empty when detailed mode was not requested; in detailed
\* mode it holds one entry per evaluated rule, in walk order, with the
\* rule's id, priority and matched flag.
C7_TraceOnlyWhenDetailed ==
    Decided =>
        IF call.detailed
        THEN /\ Len(Decision.trace) = LastEvaluated
             /\ \A i \in 1..Len(Decision.trace) :
                    /\ Decision.trace[i].rule_id = Walked[i].id
                    /\ Decision.trace[i].priority = Walked[i].priority
                    /\ Decision.trace[i].matched = (i \in Matching)
        ELSE Decision.trace = <<>>

\* a detailed walk stopped before the end of its list, leaving a trace of
\* a failed rule followed by a matched one
C7_Witness ==
    /\ Decided
    /\ call.detailed
    /\ Len(Walked) = 3
    /\ Len(Decision.trace) = 2
    /\ ~Decision.trace[1].matched
    /\ Decision.trace[2].matched

\* C15: a definition whose input_schema and output_schema are both empty
\* skips the schema checks of POST /simulate: its rules are accepted unless
\* a condition has invalid syntax.
C15_UnschemedSkipsSchemaChecks ==
    (/\ ret.done
     /\ call.op = "simulate"
     /\ call.table_definition.input_schema = <<>>
     /\ call.table_definition.output_schema = <<>>) =>
        \/ ret.value.status = 200
        \/ ret.value.detail = "Invalid syntax for field"

(***************************************************************************)
(* Specification of the persisted table: POST /tables, POST                *)
(* /tables/{id}/rules and POST /evaluate on one table slug.                *)
(***************************************************************************)
Init ==
    /\ table = NoTable
    /\ rules = <<>>
    /\ call = [op |-> "none"]
    /\ ret = NoReturn
    /\ now = 0
    /\ client = NoClient
    /\ threads = <<>>

\* POST /tables: create_decision_table; the slug is unique
CreateTable(hit_policy, schema) ==
    /\ call' = [op |-> "create_table", hit_policy |-> hit_policy, schema |-> schema]
    /\ UNCHANGED <<now, client, threads>>
    /\ IF table.exists
       THEN /\ ret' = Return([status |-> 409, detail |-> "Table slug already exists"])
            /\ UNCHANGED <<table, rules>>
       ELSE /\ table' = [exists |-> TRUE, hit_policy |-> hit_policy,
                         input_schema |-> schema.input_schema,
                         output_schema |-> schema.output_schema]
            /\ ret' = Return([status |-> 201])
            /\ UNCHANGED rules

\* the response of add_rule_to_table before it persists the rule
AddRuleError(logic) ==
    IF ~table.exists THEN [status |-> 404, detail |-> "Table not found"]
    ELSE IF /\ _is_schema_enforced(table)
            /\ validate_rule_against_schema(logic, table.input_schema,
                                            table.output_schema) # Valid
    THEN [status |-> 400,
          detail |-> validate_rule_against_schema(logic, table.input_schema,
                                                  table.output_schema)]
    ELSE IF FirstInvalidSyntax(logic) # 0
    THEN [status |-> 400, detail |-> "Invalid syntax for field"]
    ELSE [status |-> 201]

\* POST /tables/{id}/rules: add_rule_to_table
CreateRule(priority, logic) ==
    /\ Len(rules) < MaxStored
    /\ call' = [op |-> "create_rule", priority |-> priority, logic |-> logic]
    /\ ret' = Return(AddRuleError(logic))
    /\ IF AddRuleError(logic).status = 201
       THEN rules' = Append(rules, [id |-> RuleId(Len(rules) + 1),
                                    priority |-> priority, logic |-> logic])
       ELSE UNCHANGED rules
    /\ UNCHANGED <<table, now, client, threads>>

\* a load of the rows in insertion order, without ORDER BY
InsertionOrder(rows) == {rows}

\* the orders in which the relationship DecisionTable.rules may load the
\* rows: ORDER BY priority, rows of equal priority in any order
PriorityOrders(rows) ==
    {[k \in 1..Len(rows) |-> rows[p[k]]] :
        p \in {q \in [1..Len(rows) -> 1..Len(rows)] :
                  /\ \A i, j \in 1..Len(rows) : i # j => q[i] # q[j]
                  /\ \A i, j \in 1..Len(rows) :
                         i < j => rows[q[i]].priority <= rows[q[j]].priority}}

\* POST /evaluate without object_id: the table's rules, loaded by priority,
\* go to DecisionEngine.evaluate_definition
Evaluate(context, detailed) ==
    IF ~table.exists
    THEN /\ call' = [op |-> "evaluate", context |-> context,
                     detailed |-> detailed, loaded |-> <<>>]
         /\ ret' = Return([status |-> 404, detail |-> "Decision table not found"])
         /\ UNCHANGED <<table, rules, now, client, threads>>
    ELSE \E loaded \in PriorityOrders(rules) :
            /\ call' = [op |-> "evaluate", context |-> context,
                        detailed |-> detailed, loaded |-> loaded]
            /\ ret' = Return([status |-> 200,
                              body |-> evaluate_definition(
                                           [hit_policy |-> table.hit_policy,
                                            rules |-> loaded],
                                           context, detailed)])
            /\ UNCHANGED <<table, rules, now, client, threads>>

Next ==
    \/ \E hit_policy \in HitPolicy, schema \in TableSchemas :
           CreateTable(hit_policy, schema)
    \/ \E priority \in Priorities, logic \in RequestLogics :
           CreateRule(priority, logic)
    \/ \E context \in EngineContexts, detailed \in BOOLEAN :
           Evaluate(context, detailed)

Spec == Init /\ [][Next]_vars

\* positions of the persisted rows that match the context of the request
MatchingRows == {i \in 1..Len(rules) : evaluate_rule(rules[i].logic, call.context)}

\* C1: on a persisted FIRST_HIT table, whatever the order in which its rules
\* were added, POST /evaluate returns the id and outputs of a matching rule
\* of smallest priority number, never a matching rule of larger priority.
C1_FirstHitSmallestPriority ==
    (/\ ret.done
     /\ call.op = "evaluate"
     /\ ret.value.status = 200
     /\ table.hit_policy = "FIRST_HIT"
     /\ MatchingRows # {}) =>
        \E i \in MatchingRows :
            /\ Decision.rule_id = rules[i].id
            /\ Decision.result = rules[i].logic.outputs
            /\ \A j \in MatchingRows : rules[i].priority <= rules[j].priority

\* two matching rules were added in decreasing priority order and the one
\* added last, of smaller priority, was returned
C1_Witness ==
    /\ ret.done
    /\ call.op = "evaluate"
    /\ ret.value.status = 200
    /\ table.hit_policy = "FIRST_HIT"
    /\ Len(rules) >= 2
    /\ {1, 2} \subseteq MatchingRows
    /\ rules[1].priority > rules[2].priority
    /\ Decision.rule_id = rules[2].id

(***************************************************************************)
(* Specification of table management: POST /tables, PUT /tables/{id},      *)
(* POST and PUT /tables/{id}/rules and POST /tables/save on one table      *)
(* slug.                                                                   *)
(***************************************************************************)
\* the hit policies, schemas, priorities and rule logics of the requests
ManagedPolicies == {"FIRST_HIT"}

SchemaX == [input_schema |-> "x" :> "number", output_schema |-> "o1" :> "string"]

SchemaXY == [input_schema |-> "x" :> "number" @@ "y" :> "number",
             output_schema |-> "o1" :> "string"]

ManagedSchemas == {Unschemed, SchemaX, SchemaXY}

TableRequests ==
    {[hit_policy |-> hit_policy, input_schema |-> schema.input_schema,
      output_schema |-> schema.output_schema] :
        hit_policy \in ManagedPolicies, schema \in ManagedSchemas}

AddedPriorities == {1}

ManagedLogics ==
    {Logic(Inputs1("x", <<"1", ".", ".", "2">>), "o1" :> "A"),
     Logic(<<[field |-> "x", condition |-> StrV(<<"1", ".", ".", "2">>)],
             [field |-> "y", condition |-> StrV(<<">", "1">>)]>>,
           "o1" :> "B"),
     Logic(Inputs1("x", <<"2", ".", ".", "1">>), "o1" :> "A")}

\* the rule lists of PUT /tables/{id}/rules and POST /tables/save: none, one
\* rule, or two rules submitted in decreasing priority order
SubmittedRules ==
    {<<>>} \cup {<<[priority |-> 1, logic |-> logic]>> : logic \in ManagedLogics}
           \cup {<<[priority |-> 2, logic |-> first], [priority |-> 1, logic |-> second]>> :
                     first \in ManagedLogics, second \in ManagedLogics}

\* the schema evolution check of update_decision_table and
\* save_table_atomic on the loaded rules from rule i on: the detail of the
\* HTTPException raised by the first rule that references a field the
\* requested schema lacks, Valid when there is none
RECURSIVE EvolutionCheck(_, _, _)
EvolutionCheck(loaded, table_schema, i) ==
    IF i > Len(loaded) THEN Valid
    ELSE IF \E key \in InputKeys(loaded[i].logic) :
                key \notin DOMAIN table_schema.input_schema
    THEN "Cannot remove field from schema: Rule depends on it."
    ELSE IF \E key \in DOMAIN loaded[i].logic.outputs :
                key \notin DOMAIN table_schema.output_schema
    THEN "Cannot remove output field from schema: Rule depends on it."
    ELSE EvolutionCheck(loaded, table_schema, i + 1)

\* the table row after the assignments of a request's metadata and schemas
Assigned(table_schema) ==
    [exists |-> TRUE, hit_policy |-> table_schema.hit_policy,
     input_schema |-> table_schema.input_schema,
     output_schema |-> table_schema.output_schema]

\* the response of update_decision_table, the rules loaded in the order
\* of the relationship
UpdateResponse(loaded, table_schema) ==
    IF ~table.exists THEN [status |-> 404, detail |-> "Table not found"]
    ELSE IF /\ _is_schema_enforced(table)
            /\ EvolutionCheck(loaded, table_schema, 1) # Valid
    THEN [status |-> 400, detail |-> EvolutionCheck(loaded, table_schema, 1)]
    ELSE [status |-> 200]

\* the commit of update_decision_table, or none when it raised
Updated(table_schema, response) ==
    /\ call' = [op |-> "update_table", table_schema |-> table_schema]
    /\ ret' = Return(response)
    /\ IF response.status = 200
       THEN table' = Assigned(table_schema)
       ELSE UNCHANGED table
    /\ UNCHANGED <<rules, now, client, threads>>

\* PUT /tables/{id}: update_decision_table
UpdateTable(table_schema) ==
    \E loaded \in PriorityOrders(rules) :
        Updated(table_schema, UpdateResponse(loaded, table_schema))

\* the validation loop over the submitted rules from rule i on, against the
\* table row tbl: the detail of the first error, Valid when there is none
RECURSIVE SubmittedError(_, _, _)
SubmittedError(submitted, tbl, i) ==
    IF i > Len(submitted) THEN Valid
    ELSE IF /\ _is_schema_enforced(tbl)
            /\ validate_rule_against_schema(submitted[i].logic, tbl.input_schema,
                                            tbl.output_schema) # Valid
    THEN validate_rule_against_schema(submitted[i].logic, tbl.input_schema,
                                      tbl.output_schema)
    ELSE IF FirstInvalidSyntax(submitted[i].logic) # 0
    THEN "Invalid syntax for field"
    ELSE SubmittedError(submitted, tbl, i + 1)

\* sorted(validated_rules, key=priority): a stable sort
InsertByPriority(sorted, item) ==
    LET before == SelectSeq(sorted, LAMBDA r : r.priority <= item.priority)
        after == SelectSeq(sorted, LAMBDA r : r.priority > item.priority)
    IN before \o <<item>> \o after

RECURSIVE SortedByPriority(_)
SortedByPriority(items) ==
    IF items = <<>> THEN <<>>
    ELSE InsertByPriority(SortedByPriority(SubSeq(items, 1, Len(items) - 1)),
                          items[Len(items)])

\* the rows inserted for the validated rules, by priority
CreatedRules(sorted) ==
    [k \in 1..Len(sorted) |-> [id |-> RuleId(k), priority |-> sorted[k].priority,
                               logic |-> sorted[k].logic]]

\* the response to a rule list whose validation loop ended with error
ValidatedResponse(error) ==
    IF error # Valid THEN [status |-> 400, detail |-> error] ELSE [status |-> 200]

\* the response of replace_rules_for_table
ReplaceResponse(submitted) ==
    IF ~table.exists THEN [status |-> 404, detail |-> "Table not found"]
    ELSE ValidatedResponse(SubmittedError(submitted, table, 1))

\* the delete, inserts and commit of replace_rules_for_table, or none when
\* it raised
Replaced(submitted, response) ==
    /\ call' = [op |-> "replace_rules", rules |-> submitted]
    /\ ret' = Return(response)
    /\ IF response.status = 200
       THEN rules' = CreatedRules(SortedByPriority(submitted))
       ELSE UNCHANGED rules
    /\ UNCHANGED <<table, now, client, threads>>

\* PUT /tables/{id}/rules: replace_rules_for_table
ReplaceRules(submitted) ==
    \E response \in {ReplaceResponse(submitted)} : Replaced(submitted, response)

\* the table row of the database after db.rollback() of a transaction that
\* had flushed the row pending
RolledBack_Flushed(before, pending) == pending
RolledBack(before, pending) == before

\* the response of save_table_atomic: with a table_id the table must exist,
\* without one a new row is added and its flush fails on a slug in use
SaveResponse(has_id, loaded, table_schema, submitted) ==
    IF has_id /\ ~table.exists THEN [status |-> 404, detail |-> "Table not found"]
    ELSE IF /\ has_id
            /\ _is_schema_enforced(table)
            /\ EvolutionCheck(loaded, table_schema, 1) # Valid
    THEN [status |-> 400, detail |-> EvolutionCheck(loaded, table_schema, 1)]
    ELSE IF ~has_id /\ table.exists
    THEN [status |-> 409, detail |-> "Table slug is already in use by another table."]
    ELSE ValidatedResponse(SubmittedError(submitted, Assigned(table_schema), 1))

\* whether the transaction of save_table_atomic had flushed the table row
\* when the response was raised
Flushed(response) ==
    /\ response.status = 400
    /\ response.detail \notin
           {"Cannot remove field from schema: Rule depends on it.",
            "Cannot remove output field from schema: Rule depends on it."}

\* the commit of save_table_atomic, or its rollback when it raised
Saved(has_id, table_schema, submitted, response) ==
    /\ call' = [op |-> "save", has_id |-> has_id,
                table_schema |-> table_schema, rules |-> submitted]
    /\ ret' = Return(response)
    /\ UNCHANGED <<now, client, threads>>
    /\ IF response.status = 200
       THEN /\ table' = Assigned(table_schema)
            /\ rules' = CreatedRules(SortedByPriority(submitted))
       ELSE IF Flushed(response)
       THEN /\ table' = RolledBack(table, Assigned(table_schema))
            /\ UNCHANGED rules
       ELSE UNCHANGED <<table, rules>>

\* POST /tables/save: save_table_atomic
SaveTable(has_id, table_schema, submitted) ==
    \E loaded \in PriorityOrders(rules) :
        Saved(has_id, table_schema, submitted,
              SaveResponse(has_id, loaded, table_schema, submitted))

NextTables ==
    \/ \E hit_policy \in ManagedPolicies, schema \in ManagedSchemas :
           CreateTable(hit_policy, schema)
    \/ \E table_schema \in TableRequests : UpdateTable(table_schema)
    \/ \E priority \in AddedPriorities, logic \in ManagedLogics :
           CreateRule(priority, logic)
    \/ \E submitted \in SubmittedRules : ReplaceRules(submitted)
    \/ \E has_id \in BOOLEAN, table_schema \in TableRequests,
          submitted \in SubmittedRules :
           SaveTable(has_id, table_schema, submitted)

SpecTables == Init /\ [][NextTables]_vars

\* the fields a rule references that the schema lacks
Undeclared(logic, schema) ==
    (InputKeys(logic) \ DOMAIN schema.input_schema)
        \cup (DOMAIN logic.outputs \ DOMAIN schema.output_schema)

\* C16: after any sequence of table creations, updates, rule additions,
\* rule replacements and saves, every rule of a persisted table with a
\* non-empty schema references only declared input and output fields and
\* carries a condition for every field of the input schema.
C16_SchemaInvariant ==
    (table.exists /\ _is_schema_enforced(table)) =>
        \A i \in 1..Len(rules) :
            /\ Undeclared(rules[i].logic, table) = {}
            /\ DOMAIN table.input_schema \subseteq InputKeys(rules[i].logic)

\* whether a stored rule references a field the requested schema omits
Orphaning(table_schema) ==
    \E i \in 1..Len(rules) : Undeclared(rules[i].logic, table_schema) # {}

\* a rejection with status 400 whose message contains "depends on it"
DependsOnIt(response) ==
    /\ response.status = 400
    /\ response.detail \in
           {"Cannot remove field from schema: Rule depends on it.",
            "Cannot remove output field from schema: Rule depends on it."}

\* a request that updates a table: PUT /tables/{id}, or POST /tables/save
\* with a table_id
IsTableUpdate(request) ==
    \/ request.op = "update_table"
    \/ request.op = "save" /\ request.has_id

\* C17: an update of an existing table (PUT /tables/{id} or POST
\* /tables/save with table_id) whose new schema omits a field that one of
\* the table's rules references is rejected with status 400 and a "depends
\* on it" message and leaves the stored table unchanged; an update that
\* omits no referenced field is not rejected so, and the PUT succeeds.
\* An update from no schema to no schema has no field to omit.
C17_OrphaningUpdateRejected ==
    [][(/\ IsTableUpdate(call')
        /\ table.exists
        /\ _is_schema_enforced(table) \/ _is_schema_enforced(call'.table_schema)) =>
          IF Orphaning(call'.table_schema)
          THEN /\ DependsOnIt(ret'.value)
               /\ table' = table
               /\ rules' = rules
          ELSE /\ ~DependsOnIt(ret'.value)
               /\ call'.op = "update_table" =>
                      /\ ret'.value.status = 200
                      /\ table' = Assigned(call'.table_schema)]_vars

\* the stored rows are the submitted rules, each once, and nothing else
SameRules(stored, submitted) ==
    /\ Len(stored) = Len(submitted)
    /\ \E p \in [1..Len(stored) -> 1..Len(stored)] :
           /\ \A i, j \in 1..Len(stored) : i # j => p[i] # p[j]
           /\ \A k \in 1..Len(stored) :
                  /\ stored[k].priority = submitted[p[k]].priority
                  /\ stored[k].logic = submitted[p[k]].logic

\* C18: a PUT /tables/{id}/rules or POST /tables/save that fails (schema
\* violation, invalid condition syntax, slug in use, unknown table) leaves
\* the table row and its rules exactly as they were; one that succeeds
\* leaves exactly the submitted rules as the rules of the table.
C18_ReplacementAllOrNothing ==
    [][call'.op \in {"replace_rules", "save"} =>
          IF ret'.value.status # 200
          THEN table' = table /\ rules' = rules
          ELSE SameRules(rules', call'.rules)]_vars

\* a save of an existing table that holds rules assigned another schema,
\* flushed it and then failed on a submitted rule
C18_Witness ==
    /\ ret.done
    /\ call.op = "save"
    /\ call.has_id
    /\ ret.value.status = 400
    /\ ~DependsOnIt(ret.value)
    /\ table.exists
    /\ rules # <<>>
    /\ Len(call.rules) = 2
    /\ table # Assigned(call.table_schema)

\* some input condition of the rule fails validate_syntax
GrammarInvalid(logic) ==
    \E i \in 1..Len(LogicInputs(logic)) :
        ~validate_syntax(PyStr(LogicInputs(logic)[i].condition))

\* the rules a request to add, replace or save carries
Carried(request) ==
    IF request.op = "create_rule" THEN <<[logic |-> request.logic]>>
    ELSE request.rules

\* the request reaches the validation of its rules: its table is found,
\* and a save without an id finds its slug free
ReachesValidation(request) ==
    IF request.op = "save" THEN request.has_id = table.exists ELSE table.exists

\* a request to add, replace or save is made in this step and carries a
\* rule with a grammar-invalid condition
CarriesInvalid ==
    /\ call'.op \in {"create_rule", "replace_rules", "save"}
    /\ \E i \in 1..Len(Carried(call')) : GrammarInvalid(Carried(call')[i].logic)

_normalize_object_type(object_type) == StrUpper(Strip(object_type))

\* required: the names that are not blank
NotBlank(required) == SelectSeq(required, LAMBDA key : Strip(key) # <<>>)

\* key not in hydrated or hydrated.get(key) is None or hydrated.get(key) == ""
NeedsValue_Falsy(hydrated, key) ==
    \/ key \notin DOMAIN hydrated
    \/ hydrated[key] \in {NoneV, StrV(<<>>), IntV(0), BoolV(FALSE)}
NeedsValue(hydrated, key) ==
    \/ key \notin DOMAIN hydrated
    \/ hydrated[key] = NoneV
    \/ hydrated[key] = StrV(<<>>)

\* to_resolve
ToResolve(required, hydrated) ==
    SelectSeq(NotBlank(required), LAMBDA key : NeedsValue(hydrated, key))

\* the rows of the registry query: those of the target object whose
\* attribute_name is in to_resolve
RegistryRows(registry, target_object, to_resolve) ==
    {row \in registry :
        /\ row.target_object = target_object
        /\ \E i \in 1..Len(to_resolve) : to_resolve[i] = row.attribute_name}

\* registry_by_attr[key]
RegistryEntry(rows, key) == CHOOSE row \in rows : row.attribute_name = key

\* missing_registry
MissingRegistry_FirstOnly(to_resolve, rows) ==
    LET missing == SelectSeq(to_resolve,
                             LAMBDA key : \A row \in rows : row.attribute_name # key)
    IN IF missing = <<>> THEN <<>> ELSE <<missing[1]>>
MissingRegistry(to_resolve, rows) ==
    SelectSeq(to_resolve, LAMBDA key : \A row \in rows : row.attribute_name # key)

\* the order of sorted() on the one-letter names of the model
NameRank(key) == CHOOSE i \in 1..26 : Lower[i] = key[1]

InsertByName(sorted, key) ==
    SelectSeq(sorted, LAMBDA k : NameRank(k) <= NameRank(key))
        \o <<key>> \o SelectSeq(sorted, LAMBDA k : NameRank(k) > NameRank(key))

RECURSIVE SortedNames(_)
SortedNames(keys) ==
    IF keys = <<>> THEN <<>>
    ELSE InsertByName(SortedNames(SubSeq(keys, 1, Len(keys) - 1)), keys[Len(keys)])

\* the outcomes of hydrate_context: the hydrated context returned, or the
\* error raised with the names its message lists; lookups are the SELECTs
\* and the HTTP calls made for attribute values, in order
Hydrated(context, lookups) ==
    [raised |-> "none", names |-> <<>>, context |-> context, lookups |-> lookups]

ResolverError(kind, names, lookups) ==
    [raised |-> kind, names |-> names, context |-> <<>>, lookups |-> lookups]

\* dict assignment hydrated[key] = value
SetKey(hydrated, key, value) ==
    [k \in DOMAIN hydrated \cup {key} |-> IF k = key THEN value ELSE hydrated[k]]

\* one pass of the loop over to_resolve: an EXTERNAL entry is kept for the
\* batch, any other is resolved by a SELECT
ResolveStep(acc, key, entry) ==
    IF entry.resolution_strategy = "EXTERNAL"
    THEN [acc EXCEPT !.external =
              IF \E i \in 1..Len(acc.external) : acc.external[i] = key
              THEN acc.external ELSE Append(acc.external, key)]
    ELSE IF entry.value = NoneV
    THEN [acc EXCEPT !.lookups = Append(acc.lookups, [kind |-> "select", keys |-> {key}]),
                     !.unresolved = Append(acc.unresolved, key)]
    ELSE [acc EXCEPT !.lookups = Append(acc.lookups, [kind |-> "select", keys |-> {key}]),
                     !.hydrated = SetKey(acc.hydrated, key, entry.value)]

RECURSIVE ResolveLoop(_, _, _, _)
ResolveLoop(to_resolve, rows, i, acc) ==
    IF i > Len(to_resolve) THEN acc
    ELSE ResolveLoop(to_resolve, rows, i + 1,
                     ResolveStep(acc, to_resolve[i], RegistryEntry(rows, to_resolve[i])))

\* the values of external_values, from the one response of the service,
\* assigned in the order of external_entries
RECURSIVE AssignExternal(_, _, _, _)
AssignExternal(hydrated, external, rows, i) ==
    IF i > Len(external) THEN hydrated
    ELSE AssignExternal(
             IF RegistryEntry(rows, external[i]).value = NoneV THEN hydrated
             ELSE SetKey(hydrated, external[i], RegistryEntry(rows, external[i]).value),
             external, rows, i + 1)

\* _resolve_external_batch and the two loops after it
ResolveExternal(acc, rows, assigned) ==
    IF acc.external = <<>> THEN acc
    ELSE [acc EXCEPT
             !.lookups = Append(acc.lookups,
                                [kind |-> "http",
                                 keys |-> {acc.external[i] : i \in 1..Len(acc.external)}]),
             !.hydrated = assigned,
             !.unresolved = acc.unresolved
                                \o SelectSeq(acc.external,
                                             LAMBDA key : key \notin DOMAIN assigned)]

\* the end of hydrate_context
Finish(acc) ==
    IF acc.unresolved # <<>>
    THEN ResolverError("ResolverDataError", SortedNames(acc.unresolved), acc.lookups)
    ELSE Hydrated(acc.hydrated, acc.lookups)

Batched(acc, rows) ==
    Finish(ResolveExternal(acc, rows, AssignExternal(acc.hydrated, acc.external, rows, 1)))

\* hydrate_context from the registry query on
FromRegistry(hydrated, to_resolve, rows, missing_registry) ==
    IF missing_registry # <<>>
    THEN ResolverError("ResolverConfigurationError", SortedNames(missing_registry), <<>>)
    ELSE Batched(ResolveLoop(to_resolve, rows, 1,
                             [hydrated |-> hydrated, unresolved |-> <<>>,
                              external |-> <<>>, lookups |-> <<>>]),
                 rows)

Queried(hydrated, to_resolve, rows) ==
    FromRegistry(hydrated, to_resolve, rows, MissingRegistry(to_resolve, rows))

Selected(registry, target_object, hydrated, to_resolve) ==
    IF to_resolve = <<>> THEN Hydrated(hydrated, <<>>)
    ELSE Queried(hydrated, to_resolve, RegistryRows(registry, target_object, to_resolve))

hydrate_context(registry, object_type, object_id, required_attributes, context) ==
    IF object_id = <<>> THEN Hydrated(context, <<>>)
    ELSE IF _normalize_object_type(object_type) = <<>>
    THEN ResolverError("ResolverConfigurationError", <<>>, <<>>)
    ELSE Selected(registry, _normalize_object_type(object_type), context,
                  ToResolve(required_attributes, context))

\* the attribute names, the contexts, the required lists and the registries
\* of the calls
AttributeNames == {<<"a">>, <<"b">>}

OtherNames == {<<"z">>}

IncomingValues == {NoneV, StrV(<<>>), IntV(0), BoolV(FALSE), StrV(<<"v">>)}

IncomingContexts ==
    {c \in UNION {[S -> IncomingValues] : S \in SUBSET (AttributeNames \cup OtherNames)} :
        \A key \in DOMAIN c \cap OtherNames : c[key] = StrV(<<"v">>)}

MaxRequired == 2

RequiredLists ==
    UNION {[1..n -> AttributeNames \cup {<<" ">>}] : n \in 0..MaxRequired}

\* the rows an attribute may have in the registry: none, one of another
\* object, or one of the object with a value to find or none
RowsOf(key) ==
    {{}, {[target_object |-> <<"S", "O">>, attribute_name |-> key,
           resolution_strategy |-> "DIRECT", value |-> StrV(<<"d", "b">>)]}}
      \cup {{[target_object |-> <<"P", "O">>, attribute_name |-> key,
              resolution_strategy |-> strategy, value |-> value]} :
                strategy \in {"DIRECT", "EXTERNAL"},
                value \in {NoneV, StrV(<<"d", "b">>)}}

Registries == {ra \cup rb : ra \in RowsOf(<<"a">>), rb \in RowsOf(<<"b">>)}

ObjectTypes == {<<"p", "o">>, <<" ">>}

ObjectIds == {<<>>, <<"4", "2">>}

(***************************************************************************)
(* Specification of the attribute resolver: a call of hydrate_context.     *)
(***************************************************************************)
InitResolver ==
    /\ table = NoTable
    /\ rules = <<>>
    /\ ret = NoReturn
    /\ now = 0
    /\ client = NoClient
    /\ threads = <<>>
    /\ \E registry \in Registries, object_type \in ObjectTypes,
          object_id \in ObjectIds, required \in RequiredLists,
          context \in IncomingContexts :
           call = [op |-> "hydrate_context", registry |-> registry,
                   object_type |-> object_type, object_id |-> object_id,
                   required_attributes |-> required, context |-> context]

HydrateContext ==
    /\ call.op = "hydrate_context"
    /\ ~ret.done
    /\ ret' = Return(hydrate_context(call.registry, call.object_type, call.object_id,
                                     call.required_attributes, call.context))
    /\ UNCHANGED <<table, rules, call, now, client, threads>>

NextResolver == HydrateContext

SpecResolver == InitResolver /\ [][NextResolver]_vars

\* the incoming value of key is present and neither null nor ""
HasValue(key) ==
    /\ key \in DOMAIN call.context
    /\ call.context[key] # NoneV
    /\ call.context[key] # StrV(<<>>)

\* key is among required_attributes
IsRequired(key) ==
    \E i \in 1..Len(call.required_attributes) : call.required_attributes[i] = key

\* C19: hydrate_context resolves only the required attributes that are
\* missing, null or "" in the incoming context: a key whose incoming value
\* is present and neither null nor "" (0 and false included) is looked up
\* by no SELECT and no HTTP call and keeps its value in the returned
\* context, and so does every key that is not in required_attributes.
C19_PresentValuesKept ==
    ret.done =>
        \A key \in DOMAIN call.context :
            (HasValue(key) \/ ~IsRequired(key)) =>
                /\ \A i \in 1..Len(ret.value.lookups) : key \notin ret.value.lookups[i].keys
                /\ ret.value.raised = "none" =>
                       /\ key \in DOMAIN ret.value.context
                       /\ ret.value.context[key] = call.context[key]

\* a call that resolved a by a lookup and returned b = 0, required too, and
\* z, not required, as they came
C19_Witness ==
    /\ ret.done
    /\ ret.value.raised = "none"
    /\ call.required_attributes = <<<<"a">>, <<"b">>>>
    /\ DOMAIN call.context = {<<"b">>, <<"z">>}
    /\ call.context[<<"b">>] = IntV(0)
    /\ ret.value.lookups # <<>>
    /\ ret.value.context[<<"a">>] = StrV(<<"d", "b">>)
    /\ ret.value.context[<<"b">>] = IntV(0)

\* the attributes hydrate_context has to resolve that have no registry
\* entry for the object type of the call
Unregistered ==
    {key \in AttributeNames :
        /\ IsRequired(key)
        /\ ~HasValue(key)
        /\ \A row \in call.registry :
               ~(/\ row.target_object = StrUpper(Strip(call.object_type))
                 /\ row.attribute_name = key)}

\* C20: when an attribute to resolve has no registry entry for the object
\* type and its name, hydrate_context raises a configuration error whose
\* message names every such attribute, and no SELECT and no HTTP call for
\* an attribute value has been made.
C20_MissingRegistryNamedTogether ==
    (/\ ret.done
     /\ call.object_id # <<>>
     /\ Strip(call.object_type) # <<>>
     /\ Unregistered # {}) =>
        /\ ret.value.raised = "ResolverConfigurationError"
        /\ {ret.value.names[i] : i \in 1..Len(ret.value.names)} = Unregistered
        /\ ret.value.lookups = <<>>

\* a is registered with a value to find and listed first, b has no entry
\* and both are missing from the context: the error came before the SELECT
\* for a
C20_Witness ==
    /\ ret.done
    /\ call.object_id # <<>>
    /\ call.required_attributes = <<<<"a">>, <<"b">>>>
    /\ DOMAIN call.context = {}
    /\ Unregistered = {<<"b">>}
    /\ \E row \in call.registry :
           /\ row.target_object = <<"P", "O">>
           /\ row.attribute_name = <<"a">>
           /\ row.resolution_strategy = "DIRECT"
           /\ row.value # NoneV
    /\ ret.value.raised = "ResolverConfigurationError"
    /\ ret.value.names = <<<<"b">>>>

\* the attributes hydrate_context has to resolve
Unresolved == {key \in AttributeNames : IsRequired(key) /\ ~HasValue(key)}

\* the registry entry of the call's object type for key
EntryOf(key) ==
    CHOOSE row \in call.registry :
        /\ row.target_object = StrUpper(Strip(call.object_type))
        /\ row.attribute_name = key

\* the attributes to resolve whose lookup finds no value
ResolvedToNull == {key \in Unresolved : EntryOf(key).value = NoneV}

\* C21: every attribute to resolve whose lookup finds no value is reported
\* as unresolved, whether it came absent, null or "": hydrate_context then
\* raises a data error that names all of them, and a context it returns
\* holds a value, neither null nor "", for every attribute it had to
\* resolve.
C21_NullIsUnresolved ==
    (/\ ret.done
     /\ call.object_id # <<>>
     /\ Strip(call.object_type) # <<>>
     /\ Unregistered = {}) =>
        /\ ResolvedToNull # {} =>
               /\ ret.value.raised = "ResolverDataError"
               /\ {ret.value.names[i] : i \in 1..Len(ret.value.names)} = ResolvedToNull
        /\ ret.value.raised = "none" =>
               \A key \in Unresolved :
                   /\ key \in DOMAIN ret.value.context
                   /\ ret.value.context[key] \notin {NoneV, StrV(<<>>)}

(***************************************************************************)
(* The external batch: AttributeResolverService._resolve_external_batch.   *)
(* An endpoint template is a text whose element "{object_id}" is the       *)
(* placeholder; params is the text of its _stable_json and headers is      *)
(* empty. The response to a request is written as the request it answers,  *)
(* and the value a JSON-path extracts from it as the pair of both.         *)
(***************************************************************************)
\* _render_endpoint: template.format(object_id=object_id, ...)
RECURSIVE _render_endpoint(_, _)
_render_endpoint(template, object_id) ==
    IF template = <<>> THEN <<>>
    ELSE (IF Head(template) = "{object_id}" THEN object_id ELSE <<Head(template)>>)
             \o _render_endpoint(Tail(template), object_id)

\* "|".join([...]) of the five texts of the group key
GroupKey(source_service, method, endpoint, params, headers) ==
    source_service \o <<"|">> \o method \o <<"|">> \o endpoint \o <<"|">>
        \o params \o <<"|">> \o headers

\* the request of an entry: group_payloads[group_key]
Payload(path_logic, object_id) ==
    [source_service |-> path_logic.source_service,
     endpoint |-> _render_endpoint(path_logic.endpoint, object_id),
     method |-> StrUpper(path_logic.method),
     params |-> path_logic.params,
     headers |-> <<"{", "}">>]

GroupKeyOf(payload) ==
    GroupKey(payload.source_service, payload.method, payload.endpoint,
             payload.params, payload.headers)

\* groups.setdefault(group_key, []).append(...) and
\* group_payloads[group_key] = payload, the groups in insertion order
AddToGroup(groups, key, attribute, payload) ==
    IF \E g \in 1..Len(groups) : groups[g].key = key
    THEN [g \in 1..Len(groups) |->
             IF groups[g].key = key
             THEN [key |-> key, attributes |-> Append(groups[g].attributes, attribute),
                   payload |-> payload]
             ELSE groups[g]]
    ELSE Append(groups, [key |-> key, attributes |-> <<attribute>>, payload |-> payload])

Grouped(groups, entry, payload) ==
    AddToGroup(groups, GroupKeyOf(payload),
               [attribute_name |-> entry.attribute_name,
                jsonpath |-> entry.path_logic.jsonpath],
               payload)

\* the first loop of _resolve_external_batch from entry i on: the groups,
\* or the configuration error of an entry without source_service
RECURSIVE GroupLoop(_, _, _, _)
GroupLoop(entries, object_id, i, groups) ==
    IF i > Len(entries) THEN [raised |-> "none", groups |-> groups]
    ELSE IF entries[i].path_logic.source_service = <<>>
    THEN [raised |-> "ResolverConfigurationError", groups |-> <<>>]
    ELSE GroupLoop(entries, object_id, i + 1,
                   Grouped(groups, entries[i], Payload(entries[i].path_logic, object_id)))

\* _jsonpath_extract on the response to request: None when the path has no
\* match
_jsonpath_extract(request, jsonpath, matching) ==
    IF jsonpath \in matching THEN [request |-> request, jsonpath |-> jsonpath]
    ELSE NoneV

\* the values one group's response gives its attributes, added to resolved
RECURSIVE ExtractLoop(_, _, _, _)
ExtractLoop(group, matching, k, resolved) ==
    IF k > Len(group.attributes) THEN resolved
    ELSE ExtractLoop(group, matching, k + 1,
             IF group.attributes[k].jsonpath \in matching
             THEN SetKey(resolved, group.attributes[k].attribute_name,
                         _jsonpath_extract(group.payload, group.attributes[k].jsonpath,
                                           matching))
             ELSE resolved)

\* the second loop: one fetch_json per group
RECURSIVE FetchLoop(_, _, _, _)
FetchLoop(groups, matching, g, acc) ==
    IF g > Len(groups) THEN acc
    ELSE FetchLoop(groups, matching, g + 1,
             [raised |-> "none",
              fetches |-> Append(acc.fetches, groups[g].payload),
              resolved |-> ExtractLoop(groups[g], matching, 1, acc.resolved)])

Fetched(grouping, matching) ==
    IF grouping.raised # "none"
    THEN [raised |-> grouping.raised, fetches |-> <<>>, resolved |-> <<>>]
    ELSE FetchLoop(grouping.groups, matching, 1,
                   [raised |-> "none", fetches |-> <<>>, resolved |-> <<>>])

_resolve_external_batch(entries, object_id, matching) ==
    Fetched(GroupLoop(entries, object_id, 1, <<>>), matching)

\* the path_logic of the EXTERNAL entries of the calls, the JSON-paths that
\* match in the responses, and the object id
Services == {<<>>, <<"s">>, <<"s", "|", "G">>}

Methods == {<<"G">>, <<"g">>}

EndpointTemplates == {<<"e">>, <<"G", "|", "e">>, <<"{object_id}">>, <<"4">>}

ParamTexts == {<<"{", "}">>, <<"{", "q", "}">>}

JsonPaths == {<<"$", "a">>, <<"$", "b">>}

PathLogics ==
    [source_service : Services, method : Methods, endpoint : EndpointTemplates,
     params : ParamTexts, jsonpath : JsonPaths]

MaxExternal == 2

ExternalNames == <<<<"a">>, <<"b">>, <<"c">>>>

ExternalEntries(n) ==
    {[k \in 1..n |-> [attribute_name |-> ExternalNames[k], path_logic |-> pl[k]]] :
        pl \in [1..n -> PathLogics]}

(***************************************************************************)
(* Specification of the external batch: a call of                          *)
(* _resolve_external_batch.                                                *)
(***************************************************************************)
InitBatch ==
    /\ table = NoTable
    /\ rules = <<>>
    /\ ret = NoReturn
    /\ now = 0
    /\ client = NoClient
    /\ threads = <<>>
    /\ \E n \in 1..MaxExternal, matching \in SUBSET JsonPaths :
       \E entries \in ExternalEntries(n) :
           call = [op |-> "_resolve_external_batch", entries |-> entries,
                   object_id |-> <<"4">>, matching |-> matching]

ResolveExternalBatch ==
    /\ call.op = "_resolve_external_batch"
    /\ ~ret.done
    /\ ret' = Return(_resolve_external_batch(call.entries, call.object_id,
                                             call.matching))
    /\ UNCHANGED <<table, rules, call, now, client, threads>>

NextBatch == ResolveExternalBatch

SpecBatch == InitBatch /\ [][NextBatch]_vars

\* the request signature of entry k of the call: service, method, rendered
\* endpoint, params and headers
SignatureOf(k) == Payload(call.entries[k].path_logic, call.object_id)

\* C22: the fetches of one batch are as many as the distinct request
\* signatures of its EXTERNAL attributes, one per signature, and every
\* attribute whose JSON-path matches takes its value, through that path,
\* from the response to the request of its own signature.
C22_OneFetchPerSignature ==
    (ret.done /\ ret.value.raised = "none") =>
        /\ Len(ret.value.fetches)
               = Cardinality({SignatureOf(k) : k \in 1..Len(call.entries)})
        /\ \A k \in 1..Len(call.entries) :
               /\ \E f \in 1..Len(ret.value.fetches) :
                      ret.value.fetches[f] = SignatureOf(k)
               /\ call.entries[k].path_logic.jsonpath \in call.matching =>
                      ret.value.resolved[call.entries[k].attribute_name]
                          = [request |-> SignatureOf(k),
                             jsonpath |-> call.entries[k].path_logic.jsonpath]

(***************************************************************************)
(* The external data client: ExternalDataClient.fetch_json and its         *)
(* _InMemoryTtlCache. A store maps cache keys to the pair of an expiry and *)
(* a payload; the answer of the service is an input of the fetch.          *)
(***************************************************************************)
\* EXTERNAL_CACHE_TTL_SECONDS
ExternalTtl == 2

\* _InMemoryTtlCache.__init__: max(1, ttl_seconds)
CacheTtl(ttl_seconds) == IF ttl_seconds < 1 THEN 1 ELSE ttl_seconds

\* _InMemoryTtlCache.get: None for no entry or an expired one
CacheGet(store, key, time) ==
    IF key \notin DOMAIN store THEN NoneV
    ELSE IF store[key].expires_at <= time THEN NoneV
    ELSE store[key].payload

\* _InMemoryTtlCache.set
CacheSet(store, key, payload, time, ttl) ==
    [k \in DOMAIN store \cup {key} |->
        IF k = key THEN [expires_at |-> time + ttl, payload |-> payload] ELSE store[k]]

\* ExternalDataClient(): a new client, its cache empty
NewExternalClient(previous) == [store |-> <<>>, ttl |-> CacheTtl(ExternalTtl)]

\* the answer of a service that failed: an httpx.HTTPError, a status of 400
\* or more, or a body that is not JSON
HttpError == [t |-> "error", n |-> 0, d |-> 1, s |-> <<>>]

\* fetch_json: the cached payload, or the answer of the service, stored
\* unless it is an error; requests counts the HTTP requests made
FetchJson(external, key, answer, time) ==
    IF CacheGet(external.store, key, time) # NoneV
    THEN [raised |-> "none", payload |-> CacheGet(external.store, key, time),
          requests |-> 0, store |-> external.store]
    ELSE IF answer = HttpError
    THEN [raised |-> "ResolverDataError", payload |-> NoneV, requests |-> 1,
          store |-> external.store]
    ELSE [raised |-> "none", payload |-> answer, requests |-> 1,
          store |-> CacheSet(external.store, key, answer, time, external.ttl)]

\* the signatures of the requests, the answers of the service, the length
\* of the clock and the number of requests served
CacheKeys == {"k1", "k2"}

Answers == {StrV(<<"p", "1">>), StrV(<<"p", "2">>), NoneV, HttpError}

MaxTime == 2

MaxRequests == 3

(***************************************************************************)
(* Specification of the external cache: POST /evaluate requests with an    *)
(* object_id whose table needs one EXTERNAL attribute, and the clock.      *)
(* client holds the ExternalDataClient the last request fetched with.      *)
(***************************************************************************)
InitCache ==
    /\ table = NoTable
    /\ rules = <<>>
    /\ call = [op |-> "none", seq |-> 0]
    /\ ret = NoReturn
    /\ now = 0
    /\ client = [store |-> <<>>, ttl |-> CacheTtl(ExternalTtl)]
    /\ threads = <<>>

\* the response of evaluate_rules to what fetch_json gave: a data error is
\* a 404, and so is a payload in which the JSON-path finds nothing
Hydration(fetched) ==
    IF fetched.raised # "none" \/ fetched.payload = NoneV
    THEN [status |-> 404, payload |-> NoneV, requests |-> fetched.requests]
    ELSE [status |-> 200, payload |-> fetched.payload, requests |-> fetched.requests]

EvaluatedWith(key, fetched) ==
    /\ call' = [op |-> "evaluate_object", seq |-> call.seq + 1, key |-> key, at |-> now]
    /\ ret' = Return(Hydration(fetched))
    /\ client' = [store |-> fetched.store, ttl |-> client.ttl]
    /\ UNCHANGED <<table, rules, now, threads>>

\* POST /evaluate with object_id: hydrate_context is called without an
\* external_client and constructs one
EvaluateObject(key, answer) ==
    /\ call.seq < MaxRequests
    /\ \E fetched \in {FetchJson(NewExternalClient(client), key, answer, now)} :
           EvaluatedWith(key, fetched)

\* a second passes
Tick ==
    /\ now < MaxTime
    /\ now' = now + 1
    /\ UNCHANGED <<table, rules, call, ret, client, threads>>

NextCache ==
    \/ \E key \in CacheKeys, answer \in Answers : EvaluateObject(key, answer)
    \/ Tick

SpecCache == InitCache /\ [][NextCache]_vars

\* C23: of two POST /evaluate requests served one after the other that
\* hydrate the same EXTERNAL attribute with the same request signature, the
\* second, served within the cache TTL of the first's fetch, makes no HTTP
\* request and uses the response the first one got; served after the TTL it
\* makes a new request.
C23_CachedAcrossRequests ==
    [][(/\ call.op = "evaluate_object"
        /\ call'.op = "evaluate_object"
        /\ call'.seq = call.seq + 1
        /\ call'.key = call.key
        /\ ret.value.status = 200
        /\ ret.value.requests = 1) =>
           IF call'.at < call.at + CacheTtl(ExternalTtl)
           THEN /\ ret'.value.requests = 0
                /\ ret'.value.payload = ret.value.payload
           ELSE ret'.value.requests = 1]_vars

(***************************************************************************)
(* The token client: Auth0M2MClient.get_access_token and the refresh it    *)
(* makes, _request_new_token.                                              *)
(***************************************************************************)
\* AUTH0_M2M_TOKEN_LEEWAY_SECONDS as the environment sets it
EnvLeeway == 1

\* bool(v) of a number, a text or None
Truthy(v) ==
    (v.t \in {"int", "float", "bool"} /\ v.n # 0) \/ (v.t = "str" /\ v.s # <<>>)

\* Auth0M2MClient.__init__: max(0, leeway_seconds or the environment's), no
\* token, expiry 0 and a free lock; configured says that the token URL, the
\* audience, the client id and the client secret are all set, requests
\* counts the token requests sent, and queued holds the threads that were
\* waiting for the lock when the present token was stored
Auth0M2MClient(configured, leeway_seconds) ==
    LET leeway == IF Truthy(leeway_seconds) THEN leeway_seconds.n ELSE EnvLeeway
    IN  [constructed |-> TRUE,
         configured |-> configured,
         leeway |-> IF leeway < 0 THEN 0 ELSE leeway,
         access_token |-> NoneV,
         expires_at |-> 0,
         lock |-> 0,
         requests |-> 0,
         queued |-> {}]

\* with self._lock: the lock is taken when no thread holds it
Acquirable_Always(lock) == TRUE
Acquirable(lock) == lock = 0

\* the test of line 49: a token is held and read_at + leeway is before its
\* expiry
Cached(auth0, read_at) ==
    Truthy(auth0.access_token) /\ read_at + auth0.leeway < auth0.expires_at

\* dict.get(key, default)
DictGet(body, key, default) == IF key \in DOMAIN body THEN body[key] ELSE default

DefaultExpiresIn == 3600

\* int(expires_in_raw), 3600 where it raises TypeError or ValueError
ExpiresIn(raw) ==
    CASE raw.t \in {"int", "bool"} -> raw.n
      [] raw.t = "float" ->
            IF raw.n < 0 THEN 0 - ((0 - raw.n) \div raw.d) ELSE raw.n \div raw.d
      [] raw.t = "str" ->
            IF AllDigits(Unsigned(Strip(raw.s)))
            THEN IF HasSign(Strip(raw.s)) /\ Strip(raw.s)[1] = "-"
                 THEN 0 - DigitsVal(Unsigned(Strip(raw.s)))
                 ELSE DigitsVal(Unsigned(Strip(raw.s)))
            ELSE DefaultExpiresIn
      [] OTHER -> DefaultExpiresIn

\* _request_new_token from the answer of the token endpoint on: what it
\* raises, or the token and its lifetime
TokenResponse(answer) ==
    CASE answer.kind \in {"http_error", "status", "invalid_json"} ->
            [raised |-> "ResolverDataError"]
      [] answer.kind = "not_object" ->
            [raised |-> "AttributeError"]
      [] OTHER ->
            IF Strip(PyStr(DictGet(answer.body, "access_token", StrV(<<>>)))) = <<>>
            THEN [raised |-> "ResolverDataError"]
            ELSE [raised |-> "none",
                  token |-> Strip(PyStr(DictGet(answer.body, "access_token", StrV(<<>>)))),
                  expires_in |->
                      ExpiresIn(DictGet(answer.body, "expires_in", IntV(DefaultExpiresIn)))]

\* now + max(1, expires_in_seconds)
ExpiresAt_Lifetime(read_at, expires_in) == IF expires_in < 1 THEN 1 ELSE expires_in
ExpiresAt(read_at, expires_in) ==
    read_at + (IF expires_in < 1 THEN 1 ELSE expires_in)

\* the client after a refresh that raised: the with statement releases the
\* lock and nothing else was assigned
Failed_Emptied(auth0) == [auth0 EXCEPT !.lock = 0, !.access_token = StrV(<<>>)]
Failed(auth0) == [auth0 EXCEPT !.lock = 0]

\* the client after a refresh that succeeded (lines 53-55)
Refreshed(auth0, read_at, response) ==
    [auth0 EXCEPT !.access_token = StrV(response.token),
                  !.expires_at = ExpiresAt(read_at, response.expires_in),
                  !.lock = 0]

\* the threads, the calls made, configurations and answers of the endpoint
MaxThreads == 2

MaxCalls == 3

Threads == 1..MaxThreads

LeewayArguments == {NoneV, IntV(0), IntV(2), IntV(0 - 1)}

AccessTokens == {StrV(<<"t", "1">>), StrV(<<"t", "2">>), StrV(<<" ">>), NoneV}

ExpiresInValues == {IntV(0), IntV(3)}

TokenBodies ==
    {<<>>}
    \cup {[k \in {"access_token"} |-> token] :
              token \in AccessTokens \ {StrV(<<"t", "2">>)}}
    \cup {[k \in {"expires_in"} |-> IntV(3)]}
    \cup {[k \in {"access_token", "expires_in"} |->
              IF k = "access_token" THEN token ELSE lifetime] :
          token \in {StrV(<<"t", "1">>), StrV(<<"t", "2">>)},
          lifetime \in ExpiresInValues}

TokenAnswers ==
    {[kind |-> k, body |-> <<>>] :
        k \in {"http_error", "status", "invalid_json", "not_object"}}
    \cup {[kind |-> "json", body |-> body] : body \in TokenBodies}

(***************************************************************************)
(* Specification of the token client: threads that call get_access_token   *)
(* on one client, the answers of the token endpoint, and the clock.  A     *)
(* thread is idle, waiting for the lock with the time it read, or          *)
(* requesting, the lock held and its token request outstanding.            *)
(***************************************************************************)
InitToken ==
    /\ table = NoTable
    /\ rules = <<>>
    /\ call = [op |-> "none", seq |-> 0]
    /\ ret = NoReturn
    /\ now = 0
    /\ \E configured \in BOOLEAN, leeway_seconds \in LeewayArguments :
           client = Auth0M2MClient(configured, leeway_seconds)
    /\ threads = [t \in Threads |-> [pc |-> "idle", now |-> 0]]

\* the calls that have returned or raised
Completed == IF ret.done THEN ret.value.seq ELSE 0

\* line 47: the call reads the clock, then waits for the lock
GetAccessToken(t) ==
    /\ threads[t].pc = "idle"
    /\ call.seq < MaxCalls
    /\ call' = [op |-> "get_access_token", seq |-> call.seq + 1]
    /\ threads' = [threads EXCEPT ![t] = [pc |-> "waiting", now |-> now]]
    /\ UNCHANGED <<table, rules, ret, now, client>>

\* lines 48-52 and 63-78: the lock is taken; a cached token is returned, a
\* missing configuration raises, and otherwise the token request is sent
Acquire(t) ==
    /\ threads[t].pc = "waiting"
    /\ Acquirable(client.lock)
    /\ IF Cached(client, threads[t].now)
       THEN /\ ret' = Return([thread |-> t, seq |-> Completed + 1, raised |-> "none",
                              token |-> client.access_token.s, requested |-> FALSE,
                              now |-> threads[t].now, at |-> now, expires_in |-> 0])
            /\ threads' = [threads EXCEPT ![t].pc = "idle"]
            /\ client' = [client EXCEPT !.lock = 0]
       ELSE IF ~client.configured
       THEN /\ ret' = Return([thread |-> t, seq |-> Completed + 1,
                              raised |-> "ResolverConfigurationError",
                              token |-> <<>>, requested |-> FALSE,
                              now |-> threads[t].now, at |-> now, expires_in |-> 0])
            /\ threads' = [threads EXCEPT ![t].pc = "idle"]
            /\ client' = Failed(client)
       ELSE /\ client' = [client EXCEPT !.lock = t, !.requests = client.requests + 1]
            /\ threads' = [threads EXCEPT ![t].pc = "requesting"]
            /\ UNCHANGED ret
    /\ UNCHANGED <<table, rules, call, now>>

\* lines 79-102 and 53-55: the answer arrives; the token is stored and
\* returned, or the error leaves the with statement
Responded(t, response) ==
    /\ IF response.raised # "none"
       THEN /\ ret' = Return([thread |-> t, seq |-> Completed + 1,
                              raised |-> response.raised, token |-> <<>>,
                              requested |-> TRUE, now |-> threads[t].now, at |-> now,
                              expires_in |-> 0])
            /\ client' = Failed(client)
       ELSE /\ ret' = Return([thread |-> t, seq |-> Completed + 1, raised |-> "none",
                              token |-> response.token, requested |-> TRUE,
                              now |-> threads[t].now, at |-> now,
                              expires_in |-> response.expires_in])
            /\ client' = [Refreshed(client, threads[t].now, response) EXCEPT
                              !.queued = {u \in Threads : threads[u].pc = "waiting"}]
    /\ threads' = [threads EXCEPT ![t].pc = "idle"]
    /\ UNCHANGED <<table, rules, call, now>>

Respond(t, answer) ==
    /\ threads[t].pc = "requesting"
    /\ \E response \in {TokenResponse(answer)} : Responded(t, response)

NextToken ==
    \/ \E t \in Threads : GetAccessToken(t)
    \/ \E t \in Threads : Acquire(t)
    \/ \E t \in Threads, answer \in TokenAnswers : Respond(t, answer)
    \/ Tick

SpecToken == InitToken /\ [][NextToken]_vars

\* the expiry of the token a call obtained: the time the call read plus
\* the lifetime the endpoint gave, one second at least
TokenExpiry(returned) ==
    returned.now + (IF returned.expires_in < 1 THEN 1 ELSE returned.expires_in)

\* two calls completed one after the other, the first having obtained a
\* token by a request and the second having read the clock no earlier than
\* the first returned
BackToBack ==
    /\ ret.done
    /\ ret'.done
    /\ ret'.value.seq = ret.value.seq + 1
    /\ ret.value.raised = "none"
    /\ ret.value.requested
    /\ ret'.value.now >= ret.value.at

\* the second call sent no request and returned the token of the first
SecondUsesFirst ==
    /\ ret'.value.raised = "none"
    /\ ~ret'.value.requested
    /\ ret'.value.token = ret.value.token
    /\ client'.requests = client.requests

\* C24 as stated: two back-to-back get_access_token calls that both occur
\* before the expiry of the token the first obtained send one token request
\* between them, and the second returns the token of the first, whatever
\* expires_in and leeway are.
C24_OneRequestBeforeExpiry ==
    [][(BackToBack /\ ret'.value.now < TokenExpiry(ret.value)) => SecondUsesFirst]_vars

\* C24, amended: two back-to-back get_access_token calls send one token
\* request between them, and the second returns the token of the first,
\* when the second occurs more than leeway seconds before the expiry of
\* the token, the expiry being the time the first call read plus
\* max(1, expires_in).
C24_OneRequestBeforeLeeway ==
    [][(BackToBack /\ ret'.value.now + client.leeway < TokenExpiry(ret.value))
           => SecondUsesFirst]_vars

\* a second call has returned the token of the one request made, from the
\* cache
C24_Witness ==
    /\ ret.done
    /\ ret.value.seq = 2
    /\ ret.value.raised = "none"
    /\ ~ret.value.requested
    /\ client.requests = 1
    /\ ret.value.now + client.leeway < client.expires_at

\* the threads whose token request is outstanding
Outstanding == {t \in Threads : threads[t].pc = "requesting"}

\* thread t leaves the lock's queue in this step, having read the clock at
\* the time the call that stored the present token read it, that token
\* obtained by the last completed call with a lifetime above the leeway
ArrivedTogether(t) ==
    /\ threads[t].pc = "waiting"
    /\ threads'[t].pc # "waiting"
    /\ ret.done
    /\ ret.value.raised = "none"
    /\ ret.value.requested
    /\ ret.value.thread # t
    /\ ret.value.now = threads[t].now
    /\ ret.value.expires_in > client.leeway

\* C25: under any interleaving of get_access_token calls on one client at
\* most one token request is outstanding at any time, and a caller that
\* arrived together with the caller whose refresh succeeded with a lifetime
\* longer than the leeway returns that token without a request of its own.
C25_AtMostOneRefresh ==
    /\ [](Cardinality(Outstanding) <= 1)
    /\ [][\A t \in Threads : ArrivedTogether(t) =>
              /\ threads'[t].pc = "idle"
              /\ ret'.value.thread = t
              /\ ret'.value.raised = "none"
              /\ ~ret'.value.requested
              /\ ret'.value.token = ret.value.token
              /\ client'.requests = client.requests]_vars

\* two callers arrived together at a client without a usable token; one
\* refreshed, and the other, having waited for the lock, returned that
\* token without a request
C25_Witness ==
    /\ ret.done
    /\ ret.value.seq = 2
    /\ ret.value.raised = "none"
    /\ ~ret.value.requested
    /\ client.requests = 1
    /\ ret.value.thread \in client.queued
    /\ \A t \in Threads : threads[t].now = ret.value.now

\* a call ends in this step by raising
RefreshFails ==
    /\ ret' # ret
    /\ ret'.done
    /\ ret'.value.raised # "none"

\* the text of the token the client holds, empty for None
HeldToken(auth0) ==
    IF auth0.access_token.t = "str" THEN auth0.access_token.s ELSE <<>>

\* C30: when the refresh inside get_access_token fails, the call raises
\* and returns no token, the cached token and its expiry are as they were,
\* and the lock is free, so that a later call can take it and refresh; and a
\* token stored or returned is never empty.
C30_FailedRefreshLeavesCache ==
    /\ [][RefreshFails =>
              /\ ret'.value.token = <<>>
              /\ client'.access_token = client.access_token
              /\ client'.expires_at = client.expires_at
              /\ client'.lock = 0
              /\ threads'[ret'.value.thread].pc = "idle"]_vars
    /\ [](client.access_token # NoneV => Strip(HeldToken(client)) # <<>>)
    /\ []((ret.done /\ ret.value.raised = "none") => Strip(ret.value.token) # <<>>)

\* a refresh has failed at a client that held a token, and a later call has
\* sent a request again
C30_Witness ==
    /\ ret.done
    /\ ret.value.raised = "ResolverDataError"
    /\ ret.value.requested
    /\ ret.value.seq = 2
    /\ client.access_token # NoneV
    /\ client.requests = 3
    /\ \E t \in Threads : threads[t].pc = "requesting" /\ client.lock = t

(***************************************************************************)
(* DIRECT and ASSOCIATION resolution: the names of path_logic, their       *)
(* validation, and the statement executed.  A statement is a text whose    *)
(* fixed parts are single elements and whose names are spelled out.        *)
(***************************************************************************)
LowerChar(c) ==
    IF \E i \in 1..26 : Upper[i] = c
    THEN Lower[CHOOSE i \in 1..26 : Upper[i] = c]
    ELSE c

\* str.lower()
StrLower(s) == [i \in 1..Len(s) |-> LowerChar(s[i])]

Letter(c) == \E i \in 1..26 : Lower[i] = c \/ Upper[i] = c

\* _IDENTIFIER_RE.fullmatch: ^[A-Za-z_][A-Za-z0-9_]*$
_IDENTIFIER_RE(token) ==
    /\ token # <<>>
    /\ Letter(token[1]) \/ token[1] = "_"
    /\ \A i \in 2..Len(token) : Letter(token[i]) \/ token[i] \in Digits \/ token[i] = "_"

\* a or b
Or(a, b) == IF Truthy(a) THEN a ELSE b

\* str(value or "").strip()
IdentifierToken(value) == Strip(PyStr(Or(value, StrV(<<>>))))

\* _validate_identifier: the token, or the configuration error
_validate_identifier_Unchecked(value, label) ==
    IF IdentifierToken(value) = <<>>
    THEN [raised |-> "ResolverConfigurationError", label |-> label, token |-> <<>>]
    ELSE [raised |-> "none", label |-> label, token |-> IdentifierToken(value)]
_validate_identifier(value, label) ==
    IF IdentifierToken(value) = <<>> \/ ~_IDENTIFIER_RE(IdentifierToken(value))
    THEN [raised |-> "ResolverConfigurationError", label |-> label, token |-> <<>>]
    ELSE [raised |-> "none", label |-> label, token |-> IdentifierToken(value)]

\* the validations in the order the code makes them: the first that raises,
\* or 0
FirstRaised(validated) ==
    IF \A i \in 1..Len(validated) : validated[i].raised = "none" THEN 0
    ELSE CHOOSE i \in 1..Len(validated) :
             /\ validated[i].raised # "none"
             /\ \A j \in 1..(i - 1) : validated[j].raised = "none"

\* db.execute(stmt, {"object_id": object_id}): the statement, the bound
\* parameters and the names interpolated
Executed(statement, names, object_id) ==
    [raised |-> "none", executed |-> TRUE, statement |-> statement,
     params |-> [object_id |-> object_id], names |-> names, value |-> NoneV]

\* the error that ends the resolution before any statement is executed
NotExecuted(failure) ==
    [raised |-> failure.raised, executed |-> FALSE, statement |-> <<>>,
     params |-> <<>>, names |-> <<failure.label>>, value |-> NoneV]

\* _resolve_direct with the three names validated
DirectStatement(validated, object_id) ==
    IF FirstRaised(validated) # 0 THEN NotExecuted(validated[FirstRaised(validated)])
    ELSE Executed(<<"SELECT ">> \o validated[3].token \o <<" AS value FROM ">>
                      \o validated[1].token \o <<" WHERE ">> \o validated[2].token
                      \o <<" = :object_id LIMIT 1">>,
                  <<validated[1].token, validated[2].token, validated[3].token>>,
                  object_id)

\* the three names _resolve_direct reads from path_logic
DirectSelected(path_logic) ==
    <<DictGet(path_logic, "table", NoneV),
      DictGet(path_logic, "id_field", StrV(<<"i", "d">>)),
      DictGet(path_logic, "field", NoneV)>>

DirectLabels == <<"table", "id_field", "field">>

\* the names validated one by one
Validated(selected, labels) ==
    [i \in 1..Len(selected) |-> _validate_identifier(selected[i], labels[i])]

_resolve_direct(path_logic, object_id) ==
    DirectStatement(Validated(DirectSelected(path_logic), DirectLabels), object_id)

\* _DEFAULT_OBJECT_TABLES.get(target_object)
_DEFAULT_OBJECT_TABLES(target_object) ==
    IF target_object = <<"PURCHASE_ORDER">>
    THEN StrV(<<"p", "o", "_", "h", "e", "a", "d", "e", "r", "s">>)
    ELSE NoneV

\* the five names of the join as _resolve_association picks them, and
\* order_by when it is given
AssociationSelected(path_logic, target_object) ==
    <<Or(DictGet(path_logic, "base_table", NoneV),
         Or(DictGet(path_logic, "source_table", NoneV),
            _DEFAULT_OBJECT_TABLES(target_object))),
      Or(DictGet(path_logic, "join_table", NoneV), DictGet(path_logic, "join", NoneV)),
      Or(DictGet(path_logic, "join_on", NoneV),
         Or(DictGet(path_logic, "on", NoneV), DictGet(path_logic, "foreign_key", NoneV))),
      Or(DictGet(path_logic, "base_id_field", NoneV),
         Or(DictGet(path_logic, "source_id_field", NoneV),
            Or(DictGet(path_logic, "id_field", NoneV), StrV(<<"i", "d">>)))),
      Or(DictGet(path_logic, "field", NoneV), DictGet(path_logic, "select_field", NoneV))>>
        \o (IF Truthy(DictGet(path_logic, "order_by", NoneV))
            THEN <<path_logic["order_by"]>>
            ELSE <<>>)

AssociationLabels ==
    <<"base_table", "join_table", "join_on", "base_id_field", "field", "order_by">>

\* "DESC" if order_direction == "desc" else "ASC"
Direction(path_logic) ==
    IF StrLower(Strip(PyStr(DictGet(path_logic, "order_direction",
                                    StrV(<<"a", "s", "c">>))))) = <<"d", "e", "s", "c">>
    THEN "DESC"
    ELSE "ASC"

AssociationStatement(validated, direction, object_id) ==
    IF FirstRaised(validated) # 0 THEN NotExecuted(validated[FirstRaised(validated)])
    ELSE Executed(<<"SELECT j.">> \o validated[5].token \o <<" AS value FROM ">>
                      \o validated[2].token \o <<" j JOIN ">> \o validated[1].token
                      \o <<" b ON j.">> \o validated[3].token \o <<" = b.">>
                      \o validated[4].token \o <<" WHERE b.">> \o validated[4].token
                      \o <<" = :object_id">>
                      \o (IF Len(validated) = 6
                          THEN <<" ORDER BY j.">> \o validated[6].token
                                   \o <<" ", direction>>
                          ELSE <<>>)
                      \o <<" LIMIT 1">>,
                  [i \in 1..Len(validated) |-> validated[i].token],
                  object_id)

_resolve_association(path_logic, target_object, object_id) ==
    AssociationStatement(
        Validated(AssociationSelected(path_logic, target_object), AssociationLabels),
        Direction(path_logic), object_id)

\* _resolve_single for the two strategies that query the database
_resolve_single(strategy, path_logic, target_object, object_id) ==
    IF strategy = "DIRECT"
    THEN _resolve_direct(path_logic, object_id)
    ELSE _resolve_association(path_logic, target_object, object_id)

\* the values a name of path_logic is configured with
NameValues ==
    {StrV(<<"t">>), StrV(<<"_", "1">>), StrV(<<"1", "t">>), StrV(<<"t", ";">>),
     StrV(<<" ", "T", " ">>), StrV(<<>>), NoneV, BoolV(TRUE)}

DirectionValues ==
    {StrV(<<"d", "e", "s", "c">>), StrV(<<" ", "D", "E", "S", "C">>),
     StrV(<<"a", "s", "c">>), StrV(<<"x", ";">>), NoneV}

DirectKeys == {"table", "id_field", "field"}

DirectLogics == UNION {[keys -> NameValues] : keys \in SUBSET DirectKeys}

AssociationKeys ==
    {"base_table", "source_table", "join_table", "join", "join_on", "on",
     "foreign_key", "base_id_field", "source_id_field", "id_field", "field",
     "select_field", "order_by"}

\* a complete association, and what a change of one entry makes of a
\* path_logic
AssociationBase ==
    [base_table |-> StrV(<<"b">>), join_table |-> StrV(<<"j">>),
     join_on |-> StrV(<<"o">>), field |-> StrV(<<"f">>)]

Changes ==
    {[key |-> k, value |-> v, absent |-> FALSE] :
        k \in AssociationKeys, v \in NameValues}
    \cup {[key |-> "order_direction", value |-> v, absent |-> FALSE] :
        v \in DirectionValues}
    \cup {[key |-> k, value |-> NoneV, absent |-> TRUE] : k \in DOMAIN AssociationBase}

Changed(path_logic, change) ==
    IF change.absent
    THEN [k \in DOMAIN path_logic \ {change.key} |-> path_logic[k]]
    ELSE [k \in DOMAIN path_logic \cup {change.key} |->
             IF k = change.key THEN change.value ELSE path_logic[k]]

\* the complete association with one or two of its entries changed
AssociationLogics ==
    {Changed(Changed(AssociationBase, first), second) :
        first \in Changes, second \in Changes}

TargetObjects == {<<"PURCHASE_ORDER">>, <<"X">>}

SqlObjectIds == {<<"7">>, <<"7", "'", ";">>}

(***************************************************************************)
(* Specification of the resolution by SQL: one attribute of strategy       *)
(* DIRECT or ASSOCIATION is resolved for an object.                        *)
(***************************************************************************)
InitSql ==
    /\ table = NoTable
    /\ rules = <<>>
    /\ \/ \E path_logic \in DirectLogics, object_id \in SqlObjectIds :
              call = [op |-> "_resolve_single", strategy |-> "DIRECT",
                      path_logic |-> path_logic, target_object |-> <<"X">>,
                      object_id |-> object_id]
       \/ \E path_logic \in AssociationLogics, target_object \in TargetObjects,
             object_id \in SqlObjectIds :
              call = [op |-> "_resolve_single", strategy |-> "ASSOCIATION",
                      path_logic |-> path_logic, target_object |-> target_object,
                      object_id |-> object_id]
    /\ ret = NoReturn
    /\ now = 0
    /\ client = NoClient
    /\ threads = <<>>

\* the value of the first row the statement selects, None for no row
SelectedValues == {NoneV, StrV(<<"v">>)}

Resolved_Single(resolved) ==
    /\ \E value \in (IF resolved.executed THEN SelectedValues ELSE {NoneV}) :
           ret' = Return([resolved EXCEPT !.value = value])
    /\ UNCHANGED <<table, rules, call, now, client, threads>>

ResolveSingle ==
    /\ ~ret.done
    /\ \E resolved \in {_resolve_single(call.strategy, call.path_logic,
                                        call.target_object, call.object_id)} :
           Resolved_Single(resolved)

NextSql == ResolveSingle

SpecSql == InitSql /\ [][NextSql]_vars

\* the names the call under way configures, in the order of validation
ConfiguredNames ==
    IF call.strategy = "DIRECT"
    THEN DirectSelected(call.path_logic)
    ELSE AssociationSelected(call.path_logic, call.target_object)

\* the fixed parts of the two statements
FixedParts ==
    {"SELECT ", " AS value FROM ", " WHERE ", " = :object_id LIMIT 1",
     "SELECT j.", " j JOIN ", " b ON j.", " = b.", " WHERE b.", " = :object_id",
     " ORDER BY j.", " ", " LIMIT 1"}

\* what holds of a statement that was executed: its names match the
\* pattern, the statement holds nothing but fixed parts, the characters of
\* identifiers and a direction, and object_id is a bound parameter only
SafeStatement(resolved) ==
    /\ \A i \in 1..Len(resolved.names) : _IDENTIFIER_RE(resolved.names[i])
    /\ \A i \in 1..Len(resolved.statement) :
           \/ resolved.statement[i] \in FixedParts \cup {"ASC", "DESC"}
           \/ _IDENTIFIER_RE(<<"_", resolved.statement[i]>>)
    /\ resolved.params = [object_id |-> call.object_id]
    /\ ~Contains(resolved.statement, call.object_id)

\* C26 as stated: a statement is executed only if every configured name
\* matches the identifier pattern as it is configured; any other name
\* raises a configuration error and no statement is executed; the direction
\* is ASC or DESC and object_id is bound.
C26_ConfiguredNamesMatch ==
    ret.done =>
        /\ ret.value.executed <=>
               \A i \in 1..Len(ConfiguredNames) :
                   /\ ConfiguredNames[i].t = "str"
                   /\ _IDENTIFIER_RE(ConfiguredNames[i].s)
        /\ ~ret.value.executed => ret.value.raised = "ResolverConfigurationError"
        /\ ret.value.executed => SafeStatement(ret.value)

\* C26, amended: a statement is executed only if the text of every
\* configured name, stripped of surrounding whitespace, matches the
\* identifier pattern, and it is the stripped text that is interpolated; a
\* name whose stripped text does not match raises a configuration error and
\* no statement is executed; the direction is ASC or DESC and object_id is
\* bound.
C26_StrippedNamesMatch ==
    ret.done =>
        /\ ret.value.executed <=>
               \A i \in 1..Len(ConfiguredNames) :
                   _IDENTIFIER_RE(IdentifierToken(ConfiguredNames[i]))
        /\ ~ret.value.executed => ret.value.raised = "ResolverConfigurationError"
        /\ ret.value.executed =>
               /\ SafeStatement(ret.value)
               /\ ret.value.names =
                      [i \in 1..Len(ConfiguredNames) |-> IdentifierToken(ConfiguredNames[i])]

\* an association whose order_by column is configured with surrounding
\* whitespace and whose direction is not a direction was executed, ordered
\* by the stripped name, ascending
C26_Witness ==
    /\ ret.done
    /\ call.strategy = "ASSOCIATION"
    /\ DictGet(call.path_logic, "order_by", NoneV) = StrV(<<" ", "T", " ">>)
    /\ DictGet(call.path_logic, "order_direction", NoneV) = StrV(<<"x", ";">>)
    /\ ret.value.executed
    /\ Contains(ret.value.statement, <<" ORDER BY j.", "T", " ", "ASC">>)

====
